---- MODULE Spec2Model ----
(***************************************************************************)
(* The audit / versioning core of the dynamic-data backend: the version    *)
(* ledger (AuditService.logChange and its readers), the revert engine      *)
(* (AuditService.revertToVersion, AuditController.bulkRevertDocuments),    *)
(* the audited CRUD service (DynamicCrudService), the audit middleware     *)
(* (logOperationAudit) and the change-feed listener (ChangeStreamService). *)
(*                                                                         *)
(* Every awaited storage call of the source is one step of the model, so   *)
(* that the calls of concurrent requests interleave exactly where the      *)
(* event loop lets them interleave.  One dynamic schema is modelled; its   *)
(* documents are Docs, and all ledger entries carry that schemaName.       *)
(***************************************************************************)
EXTENDS Integers, Naturals, Sequences, FiniteSets, TLC

\* ------------------------------------------------------------------ bounds
NProcs == 2        \* concurrent API requests in flight
NHandlers == 1     \* change-event handlers in flight at once
NDocs == 2         \* document ids the store may hand out
MaxOps == 3        \* requests started in one behaviour
MaxWrites == 2     \* requests and direct writes started while the listener runs
MaxTime == 1       \* clock values (milliseconds of Date)
MaxBulk == 3       \* items of one bulk-revert request
NSchemas == 2      \* active schemas, each with its own subscription
MaxErrors == 2     \* subscription-level errors in one behaviour
MaxShutdowns == 2  \* shutdown calls in one behaviour
NDeps == 2         \* documents of the referencing collection
NRecords == 2      \* ids of referenced records
MaxDeletes == 1    \* referencing documents deleted by other requests
MaxCleanups == 2   \* cleanupOldAuditLogs calls in one behaviour
MaxRequests == 1   \* requests at the versioned audit routes in one behaviour
MaxPage == 3       \* highest page a history request asks for
MaxLimit == 2      \* highest page size a history request asks for

Procs == 1..NProcs
Handlers == (NProcs + 1)..(NProcs + NHandlers)
Tasks == Procs \cup Handlers
Docs == 1..NDocs
Time == 0..MaxTime
Schemas == 1..NSchemas

\* ------------------------------------------------------------- data values
\* A field that is not present in a document / an update object
\* (JavaScript undefined).
Absent == 0
\* previousState / currentState null, a findOne that found nothing.
Null == [null |-> TRUE]

\* Business fields of the schema (both optional); updatedAt stands for the
\* system fields, which the diff and the revert leave out.
BusinessFields == {"a", "c"}

\* Request bodies of createRecord: the business fields given.
CreateData == {[a |-> 1, c |-> Absent], [a |-> 1, c |-> 1]}
\* Request bodies of updateRecord: Absent marks a field the body omits.
UpdateData == {[a |-> 2, c |-> Absent], [a |-> Absent, c |-> 2]}
\* Request bodies of bulkCreateRecords: two records.
BulkCreateData == [1..2 -> CreateData]

VARIABLES
  store,      \* the dynamic collection: document id -> document, or Null
  nextDoc,    \* the next fresh document id (ObjectId generation)
  ledger,     \* the audit_logs collection: a set of entries
  nextId,     \* the next fresh ledger entry _id
  now,        \* the clock read by new Date()
  task,       \* per request / handler: the operation in flight and its locals
  ops,        \* requests and direct writes started so far (a bulk create is two)
  feed,       \* change events delivered by the subscription, not yet handled
  listening,  \* whether the schema's change subscription is open
  raced,      \* documents for which two logChange calls have overlapped
  direct,     \* direct storage writes the subscription saw, and events whose logging failed
  bulk,       \* the bulk-revert request in flight
  svc,        \* the ChangeStreamService object: its map, flags, streams and timers
  refs,       \* referencing documents and the propagateChanges call in flight
  report,     \* the result of the last cleanupOldAuditLogs call, and what it saw
  req         \* the audit-route request in flight

vars == <<store, nextDoc, ledger, nextId, now, task, ops, feed, listening, raced, direct, bulk, svc, refs, report, req>>

IdleTask ==
  [op |-> "idle", pc |-> "idle", doc |-> 0, data |-> Null, target |-> 0,
   targetId |-> 0, prev |-> Null, cur |-> Null, latest |-> 0, readAt |-> 0,
   logOp |-> "none", source |-> "none", newId |-> 0, result |-> "none",
   logFailed |-> FALSE, error |-> "none", rest |-> << >>]

\* No request at the audit routes yet.  raw holds the version texts of the
\* request, targetVersion is req.targetVersion, invoked the version arguments
\* AuditService was called with, in order; auditLogs and pagination are the
\* result of getAuditHistory and seen the ledger's next _id when its
\* countDocuments ran.
NoRequest ==
  [route |-> "none", pc |-> "idle", recordId |-> 0, raw |-> << >>,
   targetVersion |-> 0, invoked |-> << >>, status |-> 0, served |-> 0,
   seen |-> 0, auditLogs |-> << >>,
   pagination |-> [currentPage |-> 0, totalPages |-> 0, totalRecords |-> 0,
                   hasNextPage |-> FALSE, hasPrevPage |-> FALSE, limit |-> 0]]

NoBulk == [pc |-> "idle", items |-> << >>, i |-> 0, successful |-> << >>, failed |-> << >>]

\* ------------------------------------------------------- ChangePropagation
\* The referencing schema's relationships, as parseSchemaReferences lists
\* them: category and related refer to schema "Category", supplier to
\* schema "Supplier".
Relationships ==
  << [field |-> "category", referencedSchema |-> "Category", referenceType |-> "reference"],
     [field |-> "related", referencedSchema |-> "Category", referenceType |-> "array_reference"],
     [field |-> "supplier", referencedSchema |-> "Supplier", referenceType |-> "reference"] >>
RefFields == {Relationships[k].field : k \in 1..Len(Relationships)}
RefSchemas == {Relationships[k].referencedSchema : k \in 1..Len(Relationships)}
Deps == 1..NDeps
Records == 1..NRecords

\* <field>_version and <field>_lastUpdated of a document that has neither.
NoStamps == [f \in RefFields |-> [version |-> 0, lastUpdated |-> -1]]

\* The referencing documents a collection may hold (0: no reference).
DepDocs ==
  {[category |-> c, related |-> r, supplier |-> s, stamps |-> NoStamps] :
     c \in 0..NRecords, r \in SUBSET Records, s \in 0..1}

\* The _id of referencing document d, apart from the ids of Docs.
DepKey(d) == NDocs + d

\* No referencing documents, no propagateChanges call.  other is the
\* updateDependentRecord call of a second, concurrent propagateChanges.
NoRefs ==
  [docs |-> [d \in Deps |-> Null], loaded |-> TRUE, declared |-> TRUE,
   pc |-> "idle", schema |-> "none", record |-> 0, before |-> [d \in Deps |-> Null],
   found |-> << >>, i |-> 0, version |-> 0, results |-> << >>, applied |-> << >>,
   errors |-> << >>, deleted |-> 0,
   other |-> [pc |-> "idle", recordId |-> 0, field |-> "none", version |-> 0]]

\* No cleanup call so far.
\* preview is the last dry run and removal the last deleting call, each with
\* its options, its count, the clock and the next ledger _id at the call (the
\* ledger was not written since while that is still nextId).
NoReport ==
  [calls |-> 0, last |-> "none",
   preview |-> [options |-> Null, wouldDelete |-> 0, at |-> 0, saw |-> 0],
   removal |-> [options |-> Null, deleted |-> 0, at |-> 0, saw |-> 0]]

\* The variables of the ledger, the store and the requests.
dataVars == <<store, nextDoc, ledger, nextId, now, task, ops, feed, listening, raced, direct, bulk>>

\* ------------------------------------------------- ChangeStreamService object
\* The constructor: an empty changeStreams map, isInitialized false, no global
\* stream.  made lists the streams created so far, each with the streamInfo
\* object registered for it; map holds, per schema name, the index in made of
\* the registered streamInfo (0: no entry).  closePending are closed streams
\* whose 'close' event has not been delivered, timers the pending setTimeout
\* callbacks (each holding its streamInfo), retrying the callbacks waiting for
\* getSchemaByName.
NewService ==
  [isInitialized |-> FALSE, started |-> FALSE, global |-> "none",
   map |-> [s \in Schemas |-> 0], made |-> << >>, closePending |-> {},
   timers |-> << >>, retrying |-> << >>, errors |-> 0, shutdowns |-> 0]

\* initializeSchemaChangeStream: collection.watch creates a stream and
\* changeStreams.set(schema.name, {..., status: 'active'}) registers it,
\* replacing whatever entry the name had.
InitializeSchemaChangeStream(sv, s) ==
  [sv EXCEPT !.made = Append(@, [schema |-> s, closed |-> FALSE, status |-> "active",
                                 lastError |-> 0, errorAt |-> -1]),
             !.map[s] = Len(sv.made) + 1]

RECURSIVE InitializeAll(_, _)
\* initialize's loop over the active schemas, from schema s on.
InitializeAll(sv, s) ==
  IF s > NSchemas THEN sv ELSE InitializeAll(InitializeSchemaChangeStream(sv, s), s + 1)

\* The service after initialize(): one stream per active schema, the global
\* stream open, isInitialized true.
Initialized(sv) ==
  [InitializeAll(sv, 1) EXCEPT !.global = "open", !.isInitialized = TRUE, !.started = TRUE]

\* ------------------------------------------------------------ ledger reads
EntriesOf(d) == {e \in ledger : e.documentId = d}

SetMax(S) == CHOOSE x \in S : \A y \in S : y <= x

SetMin(S) == CHOOSE x \in S : \A y \in S : x <= y

\* getLatestVersion with the sort direction reversed (sort({version: 1})).
GetLatestVersionAscending(d) ==
  IF EntriesOf(d) = {} THEN 0 ELSE SetMin({e.version : e \in EntriesOf(d)})

\* The latest version taken as the number of entries (countDocuments), which
\* is the highest version only while no entry was ever removed.
GetLatestVersionCounted(d) == Cardinality(EntriesOf(d))

\* AuditService.getLatestVersion: the highest version of the document, 0 if
\* it has no entry.
GetLatestVersion(d) ==
  IF EntriesOf(d) = {} THEN 0 ELSE SetMax({e.version : e \in EntriesOf(d)})

\* AuditLog.findOne({documentId, schemaName, version}): the entries the query
\* matches; without a sort the store returns any one of them.
FindByVersion(d, v) == {e \in EntriesOf(d) : e.version = v}

\* ------------------------------------------------------------ store writes
\* $set semantics of findOneAndUpdate / findByIdAndUpdate: the fields the
\* update names are overwritten, every other field is kept.
ApplySet(doc, upd, t) ==
  [a |-> IF upd.a # Absent THEN upd.a ELSE doc.a,
   c |-> IF upd.c # Absent THEN upd.c ELSE doc.c,
   updatedAt |-> t]

\* new Model(data).save(): the given fields plus the system-field defaults.
NewDocument(data, t) == [a |-> data.a, c |-> data.c, updatedAt |-> t]

\* revertData: the target state without its system fields.
RevertData(state) == [a |-> state.a, c |-> state.c]

\* ------------------------------------------------------------------- Init
Init ==
  /\ store = [d \in Docs |-> Null]
  /\ nextDoc = 1
  /\ ledger = {}
  /\ nextId = 1
  /\ now = 0
  /\ task = [p \in Tasks |-> IdleTask]
  /\ ops = 0
  /\ feed = << >>
  /\ listening = FALSE
  /\ raced = {}
  /\ direct = {}
  /\ bulk = NoBulk
  /\ svc = NewService
  /\ refs = NoRefs
  /\ report = NoReport
  /\ req = NoRequest

\* The clock advances.
Tick ==
  /\ now < MaxTime
  /\ now' = now + 1
  /\ UNCHANGED <<store, nextDoc, ledger, nextId, task, ops, feed, listening, raced, direct, bulk, svc, refs, report, req>>

Free(p) == task[p].pc \in {"idle", "done"}

\* The cap on the requests and writes of one behaviour.
OpsLeft == ops < (IF listening THEN MaxWrites ELSE MaxOps)

Finish(p, res, err, failed) ==
  [IdleTask EXCEPT !.op = task[p].op, !.pc = "done", !.doc = task[p].doc,
                   !.target = task[p].target, !.newId = task[p].newId,
                   !.result = res, !.error = err, !.logFailed = failed]

\* ------------------------------------------------------------ change feed
\* The storage-level event of a committed write, as the oplog records it.
\* fullDocument is carried by an insert; an update's fullDocument is looked
\* up when the event is delivered; a delete has none.  pre is the before-
\* image, which the feed supplies only when the collection records it.
ChangeEvent(type, d, doc, pre) ==
  [operationType |-> type, documentKey |-> d, fullDocument |-> doc, fullDocumentBeforeChange |-> pre]

\* The subscription's $match stage: 'fullDocument._schemaName' must equal the
\* schema's name, so an event without a fullDocument does not pass.
PipelineMatch(ev) ==
  /\ ev.fullDocument # Null
  /\ ev.operationType \in {"insert", "update", "delete"}

\* A committed write reaches the open subscription as a raw event.
Emit(type, d, doc, pre) ==
  IF listening THEN Append(feed, ChangeEvent(type, d, doc, pre)) ELSE feed

\* ChangeStreamService.mapOperationType
MapOperationType(operationType) ==
  CASE operationType = "insert" -> "create"
    [] operationType = "update" -> "update"
    [] operationType = "delete" -> "delete"
    [] OTHER -> operationType

\* ---------------------------------------------------- calculateChangedFields
DigitChars == <<"0", "1", "2", "3", "4", "5", "6", "7", "8", "9">>

IsDigit(c) == \E i \in 1..Len(DigitChars) : DigitChars[i] = c

DigitValue(c) == (CHOOSE i \in 1..Len(DigitChars) : DigitChars[i] = c) - 1

\* The decimal numeral of a natural number.
RECURSIVE NumberText(_)
NumberText(n) ==
  IF n < 10 THEN <<DigitChars[n + 1]>>
  ELSE NumberText(n \div 10) \o <<DigitChars[(n % 10) + 1]>>

\* JSON.stringify(value): undefined for an absent field, else the text.
JsonStringify(value) ==
  IF value = Absent THEN [defined |-> FALSE, text |-> << >>]
  ELSE [defined |-> TRUE, text |-> NumberText(value)]

\* The fields calculateChangedFields does not compare.
SystemFields == {"_id", "__v", "createdAt", "updatedAt", "_schemaName"}

\* Object.keys(state): the fields present in the state.
Keys(state) == {f \in DOMAIN state : state[f] # Absent}

\* A diff that lists every compared field, changed or not.
CalculateChangedFieldsAll(previousState, currentState) ==
  {[field |-> f, oldValue |-> previousState[f], newValue |-> currentState[f]] :
     f \in (Keys(previousState) \cup Keys(currentState)) \ SystemFields}

\* calculateChangedFields: one item per field of the key union, system
\* fields skipped, whose two values stringify differently.
CalculateChangedFields(previousState, currentState) ==
  {[field |-> f, oldValue |-> previousState[f], newValue |-> currentState[f]] :
     f \in {g \in (Keys(previousState) \cup Keys(currentState)) \ SystemFields :
              JsonStringify(previousState[g]) # JsonStringify(currentState[g])}}

\* logChange: the diff is computed for an update with both states present.
ChangedFields(operation, previousState, currentState) ==
  IF operation = "update" /\ previousState # Null /\ currentState # Null
  THEN CalculateChangedFields(previousState, currentState)
  ELSE {}

\* --------------------------------------------------------------- logChange
\* The entry logChange constructs (new AuditLog({...})), schema defaults
\* applied: canRevert true, revertedFrom null.
NewAuditLog(id, d, operation, prev, cur, version, ts, source, isRevert, target) ==
  [_id |-> id, documentId |-> d, operation |-> operation,
   previousState |-> prev, currentState |-> cur,
   changedFields |-> ChangedFields(operation, prev, cur), version |-> version,
   timestamp |-> ts, source |-> source, isRevert |-> isRevert,
   revertedToVersion |-> target, revertedFrom |-> 0, canRevert |-> TRUE]

\* version = latestVersion + 1
NextVersion(latest) == latest + 1

\* Where a task goes when its logChange call returns the saved entry.
\* bulkCreateRecords after one of its logChange promises settled, failed or
\* not: Promise.allSettled waits for the others and the records are returned.
\* (The calls are for distinct new documents; they are taken one by one.)
BulkCreateSettled(p, failed) ==
  IF task[p].rest = << >>
  THEN Finish(p, "ok", "none", task[p].logFailed \/ failed)
  ELSE [task[p] EXCEPT !.pc = "logRead", !.doc = Head(task[p].rest).doc,
                       !.cur = Head(task[p].rest).cur, !.rest = Tail(task[p].rest),
                       !.logFailed = task[p].logFailed \/ failed]

AfterLog(p, id) ==
  CASE task[p].op = "revert" -> [task[p] EXCEPT !.pc = "patch", !.newId = id]
    [] task[p].op = "changeEvent" -> IdleTask
    [] task[p].op = "bulkCreate" -> BulkCreateSettled(p, FALSE)
    [] OTHER -> Finish(p, "ok", "none", FALSE)

\* The audit failure propagated as the operation's error (no try/catch
\* around logChange).
CrudLogFailureRethrown(p) == Finish(p, "error", "Failed to log audit change", TRUE)

\* The try/catch around logChange in createRecord, updateRecord and
\* deleteRecord only warns; the operation returns its normal result.
CrudLogFailure(p) == Finish(p, "ok", "none", TRUE)

\* handleChangeEvent without its catch: the rejection leaves the 'change'
\* callback and the handler never returns.
HandlerLogFailureRethrown(p) == [IdleTask EXCEPT !.pc = "crashed"]

\* The catch of handleChangeEvent: the failure is logged and dropped.
HandlerLogFailure(p) == IdleTask

\* Where a task goes when its logChange call throws.
AfterLogFailure(p) ==
  CASE task[p].op = "revert" -> Finish(p, "error", "Failed to log audit change", TRUE)
    [] task[p].op \in {"create", "update", "delete"} -> CrudLogFailure(p)
    [] task[p].op = "bulkCreate" -> BulkCreateSettled(p, TRUE)
    [] OTHER -> HandlerLogFailure(p)

\* logChange, first await: getLatestVersion resolves.
LogRead(p) ==
  /\ task[p].pc = "logRead"
  /\ task' = [task EXCEPT ![p] = [@ EXCEPT !.pc = "logSave",
                                          !.latest = GetLatestVersion(task[p].doc),
                                          !.readAt = now]]
  /\ raced' = IF \E q \in Tasks \ {p} : task[q].pc = "logSave" /\ task[q].doc = task[p].doc
              THEN raced \cup {task[p].doc} ELSE raced
  /\ UNCHANGED <<store, nextDoc, ledger, nextId, now, ops, feed, listening, direct, bulk, svc, refs, report, req>>

\* logChange, second await: auditLog.save() persists the entry, whose
\* timestamp was read from the clock after the version query resolved.
LogSave(p) ==
  /\ task[p].pc = "logSave"
  /\ \E ts \in task[p].readAt..now :
       /\ ledger' = ledger \cup
            {NewAuditLog(nextId, task[p].doc, task[p].logOp, task[p].prev, task[p].cur,
                         NextVersion(task[p].latest), ts, task[p].source,
                         task[p].op = "revert", task[p].target)}
       /\ nextId' = nextId + 1
       /\ task' = [task EXCEPT ![p] = AfterLog(p, nextId)]
  /\ UNCHANGED <<store, nextDoc, now, ops, feed, listening, raced, direct, bulk, svc, refs, report, req>>

\* logChange, second await: auditLog.save() rejects (persistence failure);
\* logChange rethrows to its caller.
LogSaveFails(p) ==
  /\ task[p].pc = "logSave"
  /\ task' = [task EXCEPT ![p] = AfterLogFailure(p)]
  /\ direct' = IF task[p].op = "changeEvent"
               THEN direct \cup {[type |-> "dropped", doc |-> task[p].doc, at |-> nextId]}
               ELSE direct
  /\ UNCHANGED <<store, nextDoc, ledger, nextId, now, ops, feed, listening, raced, bulk, svc, refs, report, req>>

\* ------------------------------------------------------ DynamicCrudService
\* createRecord up to record.save(): the document is committed.
CreateSave(p, data) ==
  /\ Free(p)
  /\ OpsLeft
  /\ nextDoc <= NDocs
  /\ LET doc == NewDocument(data, now) IN
       /\ store' = [store EXCEPT ![nextDoc] = doc]
       /\ feed' = Emit("insert", nextDoc, doc, Null)
       /\ task' = [task EXCEPT ![p] =
            [IdleTask EXCEPT !.op = "create", !.pc = "logRead", !.doc = nextDoc,
                             !.logOp = "create", !.prev = Null, !.cur = doc,
                             !.source = "api"]]
  /\ nextDoc' = nextDoc + 1
  /\ ops' = ops + 1
  /\ UNCHANGED <<ledger, nextId, now, listening, raced, direct, bulk, svc, refs, report, req>>

\* bulkCreateRecords up to Model.insertMany: both documents are committed.
CreateMany(p, records) ==
  /\ Free(p)
  /\ OpsLeft
  /\ ops + 2 <= (IF listening THEN MaxWrites ELSE MaxOps)
  /\ nextDoc + 1 <= NDocs
  /\ LET d1 == nextDoc
         d2 == nextDoc + 1
         doc1 == NewDocument(records[1], now)
         doc2 == NewDocument(records[2], now) IN
       /\ store' = [store EXCEPT ![d1] = doc1, ![d2] = doc2]
       /\ feed' = IF listening
                  THEN feed \o <<ChangeEvent("insert", d1, doc1, Null),
                                 ChangeEvent("insert", d2, doc2, Null)>>
                  ELSE feed
       /\ task' = [task EXCEPT ![p] =
            [IdleTask EXCEPT !.op = "bulkCreate", !.pc = "logRead", !.doc = d1,
                             !.logOp = "create", !.prev = Null, !.cur = doc1,
                             !.source = "api",
                             !.rest = <<[doc |-> d2, cur |-> doc2]>>]]
  /\ nextDoc' = nextDoc + 2
  /\ ops' = ops + 2
  /\ UNCHANGED <<ledger, nextId, now, listening, raced, direct, bulk, svc, refs, report, req>>

\* updateRecord up to Model.findOne: the previous state is read.
UpdateFind(p, d, data) ==
  /\ Free(p)
  /\ OpsLeft
  /\ task' = [task EXCEPT ![p] =
       IF store[d] = Null
       THEN [IdleTask EXCEPT !.op = "update", !.pc = "done", !.doc = d,
                             !.result = "error", !.error = "not found"]
       ELSE [IdleTask EXCEPT !.op = "update", !.pc = "apply", !.doc = d,
                             !.data = data, !.prev = store[d]]]
  /\ ops' = ops + 1
  /\ UNCHANGED <<store, nextDoc, ledger, nextId, now, feed, listening, raced, direct, bulk, svc, refs, report, req>>

\* updateRecord without the !updatedRecord check: an update that found
\* nothing goes on to logChange.
UpdateApplyLogsAnyway(p) ==
  /\ task[p].op = "update"
  /\ task[p].pc = "apply"
  /\ LET d == task[p].doc
         doc == IF store[d] = Null THEN Null ELSE ApplySet(store[d], task[p].data, now) IN
       /\ store' = [store EXCEPT ![d] = doc]
       /\ feed' = IF doc = Null THEN feed ELSE Emit("update", d, Null, store[d])
       /\ task' = [task EXCEPT ![p] =
            [@ EXCEPT !.pc = "logRead", !.logOp = "update", !.cur = doc,
                      !.source = "api"]]
  /\ UNCHANGED <<nextDoc, ledger, nextId, now, ops, listening, raced, direct, bulk, svc, refs, report, req>>

\* updateRecord, Model.findOneAndUpdate: the update commits, or finds nothing.
UpdateApply(p) ==
  /\ task[p].op = "update"
  /\ task[p].pc = "apply"
  /\ LET d == task[p].doc
         doc == ApplySet(store[d], task[p].data, now) IN
       IF store[d] = Null
       THEN /\ task' = [task EXCEPT ![p] = Finish(p, "error", "not found", FALSE)]
            /\ UNCHANGED <<store, feed, svc, refs, report, req>>
       ELSE /\ store' = [store EXCEPT ![d] = doc]
            /\ feed' = Emit("update", d, Null, store[d])
            /\ task' = [task EXCEPT ![p] =
                 [@ EXCEPT !.pc = "logRead", !.logOp = "update", !.cur = doc,
                           !.source = "api"]]
  /\ UNCHANGED <<nextDoc, ledger, nextId, now, ops, listening, raced, direct, bulk, svc, refs, report, req>>

\* deleteRecord up to Model.findOne: the previous state is read.
DeleteFind(p, d) ==
  /\ Free(p)
  /\ OpsLeft
  /\ task' = [task EXCEPT ![p] =
       IF store[d] = Null
       THEN [IdleTask EXCEPT !.op = "delete", !.pc = "done", !.doc = d,
                             !.result = "error", !.error = "not found"]
       ELSE [IdleTask EXCEPT !.op = "delete", !.pc = "apply", !.doc = d,
                             !.prev = store[d]]]
  /\ ops' = ops + 1
  /\ UNCHANGED <<store, nextDoc, ledger, nextId, now, feed, listening, raced, direct, bulk, svc, refs, report, req>>

\* deleteRecord, Model.findOneAndDelete: the delete commits, or finds nothing.
DeleteApply(p) ==
  /\ task[p].op = "delete"
  /\ task[p].pc = "apply"
  /\ LET d == task[p].doc IN
       IF store[d] = Null
       THEN /\ task' = [task EXCEPT ![p] = Finish(p, "error", "not found", FALSE)]
            /\ UNCHANGED <<store, feed, svc, refs, report, req>>
       ELSE /\ store' = [store EXCEPT ![d] = Null]
            /\ feed' = Emit("delete", d, Null, store[d])
            /\ task' = [task EXCEPT ![p] =
                 [@ EXCEPT !.pc = "logRead", !.logOp = "delete", !.cur = Null,
                           !.source = "api"]]
  /\ UNCHANGED <<nextDoc, ledger, nextId, now, ops, listening, raced, direct, bulk, svc, refs, report, req>>

\* The audited CRUD service, run by the requests in P.
Crud(P) ==
  \E p \in P :
    \/ \E data \in CreateData : CreateSave(p, data)
    \/ \E records \in BulkCreateData : CreateMany(p, records)
    \/ \E d \in Docs, data \in UpdateData : UpdateFind(p, d, data)
    \/ UpdateApply(p)
    \/ \E d \in Docs : DeleteFind(p, d)
    \/ DeleteApply(p)

\* ------------------------------------------------ AuditService.revertToVersion
\* Version numbers a request may name.
Versions == 1..MaxOps

RevertError(p, d, v, msg) ==
  [IdleTask EXCEPT !.op = "revert", !.pc = "done", !.doc = d, !.target = v,
                   !.result = "error", !.error = msg]

\* revertToVersion up to AuditLog.findOne: the target entry is looked up and
\* checked (found, canRevert, currentState present).
RevertLookup(p, d, v) ==
  IF FindByVersion(d, v) = {}
  THEN task' = [task EXCEPT ![p] = RevertError(p, d, v, "version not found")]
  ELSE \E e \in FindByVersion(d, v) :
         task' = [task EXCEPT ![p] =
           IF ~e.canRevert THEN RevertError(p, d, v, "cannot be reverted")
           ELSE IF e.currentState = Null THEN RevertError(p, d, v, "no state available")
           ELSE [IdleTask EXCEPT !.op = "revert", !.pc = "current", !.doc = d,
                                 !.target = v, !.targetId = e._id,
                                 !.data = e.currentState]]

\* A revert request arrives.
RevertFind(p, d, v) ==
  /\ Free(p)
  /\ OpsLeft
  /\ RevertLookup(p, d, v)
  /\ ops' = ops + 1
  /\ UNCHANGED <<store, nextDoc, ledger, nextId, now, feed, listening, raced, direct, bulk, svc, refs, report, req>>

\* revertToVersion, Model.findById: the pre-revert snapshot is read.
RevertCurrent(p) ==
  /\ task[p].op = "revert"
  /\ task[p].pc = "current"
  /\ task' = [task EXCEPT ![p] =
       IF store[task[p].doc] = Null
       THEN Finish(p, "error", "document not found", FALSE)
       ELSE [@ EXCEPT !.pc = "apply", !.prev = store[task[p].doc]]]
  /\ UNCHANGED <<store, nextDoc, ledger, nextId, now, ops, feed, listening, raced, direct, bulk, svc, refs, report, req>>

\* The document findByIdAndUpdate(documentId, {...revertData, updatedAt})
\* leaves behind.
RevertedDocument(doc, targetState, t) == ApplySet(doc, RevertData(targetState), t)

\* RevertApply with a null-tolerant revertedDocument?.toObject(): a missing
\* document no longer aborts the revert before logChange.
RevertApplyLogsAnyway(p) ==
  /\ task[p].op = "revert"
  /\ task[p].pc = "apply"
  /\ LET d == task[p].doc
         doc == IF store[d] = Null THEN Null
                ELSE RevertedDocument(store[d], task[p].data, now) IN
       /\ store' = [store EXCEPT ![d] = doc]
       /\ feed' = IF doc = Null THEN feed ELSE Emit("update", d, Null, store[d])
       /\ task' = [task EXCEPT ![p] =
            [@ EXCEPT !.pc = "logRead", !.logOp = "update", !.cur = doc,
                      !.source = "none"]]
  /\ UNCHANGED <<nextDoc, ledger, nextId, now, ops, listening, raced, direct, bulk, svc, refs, report, req>>

\* revertToVersion, Model.findByIdAndUpdate: the stripped target state is
\* applied; on a document deleted meanwhile it returns null and
\* revertedDocument.toObject() throws before logChange is called.
RevertApply(p) ==
  /\ task[p].op = "revert"
  /\ task[p].pc = "apply"
  /\ LET d == task[p].doc
         doc == RevertedDocument(store[d], task[p].data, now) IN
       IF store[d] = Null
       THEN /\ task' = [task EXCEPT ![p] = Finish(p, "error", "apply failed", FALSE)]
            /\ UNCHANGED <<store, feed, svc, refs, report, req>>
       ELSE /\ store' = [store EXCEPT ![d] = doc]
            /\ feed' = Emit("update", d, Null, store[d])
            /\ task' = [task EXCEPT ![p] =
                 [@ EXCEPT !.pc = "logRead", !.logOp = "update", !.cur = doc,
                           !.source = "none"]]
  /\ UNCHANGED <<nextDoc, ledger, nextId, now, ops, listening, raced, direct, bulk, svc, refs, report, req>>

\* A patch that also rewrites the entry's canRevert flag.
SetRevertedFromAndLock(e, id, targetId) ==
  IF e._id = id THEN [e EXCEPT !.revertedFrom = targetId, !.canRevert = FALSE] ELSE e

\* The entry after AuditLog.findByIdAndUpdate(_id, {revertedFrom}).
SetRevertedFrom(e, id, targetId) ==
  IF e._id = id THEN [e EXCEPT !.revertedFrom = targetId] ELSE e

\* revertToVersion, last await: the new entry's revertedFrom is set to the
\* target entry's _id, and the revert returns.
RevertPatch(p) ==
  /\ task[p].op = "revert"
  /\ task[p].pc = "patch"
  /\ ledger' = {SetRevertedFrom(e, task[p].newId, task[p].targetId) : e \in ledger}
  /\ task' = [task EXCEPT ![p] = Finish(p, "ok", "none", FALSE)]
  /\ UNCHANGED <<store, nextDoc, nextId, now, ops, feed, listening, raced, direct, bulk, svc, refs, report, req>>

\* The revert engine, run by the requests in P.
Revert(P) ==
  \E p \in P :
    \/ \E d \in Docs, v \in Versions : RevertFind(p, d, v)
    \/ RevertCurrent(p)
    \/ RevertApply(p)
    \/ RevertPatch(p)

\* The steps of a revert that is under way.
RevertSteps(P) == \E p \in P : RevertCurrent(p) \/ RevertApply(p) \/ RevertPatch(p)

Log == \E p \in Tasks : LogRead(p) \/ LogSave(p) \/ LogSaveFails(p)

Next == Tick \/ Crud(Procs) \/ Revert(Procs) \/ Log

Spec == Init /\ [][Next]_vars

\* ------------------------------------------------- writes past the service
\* A document inserted straight into the collection (bulk tool, shell).
DirectInsert(data) ==
  /\ OpsLeft
  /\ nextDoc <= NDocs
  /\ LET doc == NewDocument(data, now) IN
       /\ store' = [store EXCEPT ![nextDoc] = doc]
       /\ feed' = Emit("insert", nextDoc, doc, Null)
  /\ direct' = IF listening THEN direct \cup {[type |-> "insert", doc |-> nextDoc]} ELSE direct
  /\ nextDoc' = nextDoc + 1
  /\ ops' = ops + 1
  /\ UNCHANGED <<ledger, nextId, now, task, listening, raced, bulk, svc, refs, report, req>>

\* A document updated straight in the collection.
DirectUpdate(d, data) ==
  /\ OpsLeft
  /\ store[d] # Null
  /\ store' = [store EXCEPT ![d] = ApplySet(store[d], data, now)]
  /\ feed' = Emit("update", d, Null, store[d])
  /\ direct' = IF listening THEN direct \cup {[type |-> "update", doc |-> d]} ELSE direct
  /\ ops' = ops + 1
  /\ UNCHANGED <<nextDoc, ledger, nextId, now, task, listening, raced, bulk, svc, refs, report, req>>

\* A document deleted straight from the collection.
DirectDelete(d) ==
  /\ OpsLeft
  /\ store[d] # Null
  /\ store' = [store EXCEPT ![d] = Null]
  /\ feed' = Emit("delete", d, Null, store[d])
  /\ direct' = IF listening THEN direct \cup {[type |-> "delete", doc |-> d]} ELSE direct
  /\ ops' = ops + 1
  /\ UNCHANGED <<nextDoc, ledger, nextId, now, task, listening, raced, bulk, svc, refs, report, req>>

DirectWrite ==
  \/ \E data \in CreateData : DirectInsert(data)
  \/ \E d \in Docs, data \in UpdateData : DirectUpdate(d, data)
  \/ \E d \in Docs : DirectDelete(d)

\* ------------------------------------------------------ ChangeStreamService
\* The event the subscription hands to its pipeline: fullDocument:
\* 'updateLookup' reads an updated document at delivery time.
Delivered(ev) ==
  IF ev.operationType = "update"
  THEN [ev EXCEPT !.fullDocument = IF ev.documentKey \in Docs
                                    THEN store[ev.documentKey]
                                    ELSE refs.docs[ev.documentKey - NDocs]]
  ELSE ev

\* handleChangeEvent's switch with the insert case filling previousState
\* from the event's document.
ChangeAuditDataSwapped(ev, pre) ==
  CASE ev.operationType = "insert" -> [cur |-> Null, prev |-> ev.fullDocument]
    [] ev.operationType = "update" -> [cur |-> ev.fullDocument, prev |-> pre]
    [] ev.operationType = "delete" -> [cur |-> Null, prev |-> pre]

\* handleChangeEvent's switch: currentState / previousState per operation
\* type; pre is fullDocumentBeforeChange, Null when the feed has none.
ChangeAuditData(ev, pre) ==
  CASE ev.operationType = "insert" -> [cur |-> ev.fullDocument, prev |-> Null]
    [] ev.operationType = "update" -> [cur |-> ev.fullDocument, prev |-> pre]
    [] ev.operationType = "delete" -> [cur |-> Null, prev |-> pre]

\* changeStream.on('change'): the next event passes the $match stage and a
\* handler starts on it, up to its call of logChange.
HandleChangeEvent(h) ==
  /\ Free(h)
  /\ feed # << >>
  /\ PipelineMatch(Delivered(Head(feed)))
  /\ \E pre \in {Head(feed).fullDocumentBeforeChange, Null} :
       LET ev == Delivered(Head(feed))
           data == ChangeAuditData(ev, pre) IN
         task' = [task EXCEPT ![h] =
           [IdleTask EXCEPT !.op = "changeEvent", !.pc = "logRead",
                            !.doc = ev.documentKey,
                            !.logOp = MapOperationType(ev.operationType),
                            !.prev = data.prev, !.cur = data.cur,
                            !.source = "changeStream"]]
  /\ feed' = Tail(feed)
  /\ UNCHANGED <<store, nextDoc, ledger, nextId, now, ops, listening, raced, direct, bulk, svc, refs, report, req>>

\* The next event does not pass the $match stage: no handler sees it.
FilterChangeEvent ==
  /\ feed # << >>
  /\ ~PipelineMatch(Delivered(Head(feed)))
  /\ feed' = Tail(feed)
  /\ UNCHANGED <<store, nextDoc, ledger, nextId, now, task, ops, listening, raced, direct, bulk, svc, refs, report, req>>

Listener == (\E h \in Handlers : HandleChangeEvent(h)) \/ FilterChangeEvent

\* The request served while the listener runs.
StreamProcs == {1}

InitStream ==
  /\ store = [d \in Docs |-> Null]
  /\ nextDoc = 1
  /\ ledger = {}
  /\ nextId = 1
  /\ now = 0
  /\ task = [p \in Tasks |-> IdleTask]
  /\ ops = 0
  /\ feed = << >>
  /\ listening = TRUE
  /\ raced = {}
  /\ direct = {}
  /\ bulk = NoBulk
  /\ svc = Initialized(NewService)
  /\ refs = NoRefs
  /\ report = NoReport
  /\ req = NoRequest

NextStream ==
  Tick \/ Crud(StreamProcs) \/ Revert(StreamProcs) \/ Log \/ DirectWrite \/ Listener

\* The service with the schema's change subscription open.
SpecStream == InitStream /\ [][NextStream]_vars

\* ------------------------------------------- ChangeStreamService lifecycle
StreamIds == 1..Len(svc.made)
OpenStreams(sv) == {id \in 1..Len(sv.made) : ~sv.made[id].closed}

\* changeStream.close(): the stream is closed at once, its 'close' event is
\* emitted later.  by is "driver" for a close the driver did on an error,
\* "code" for one this service asked for.
CloseStream(sv, id, by) ==
  IF sv.made[id].closed THEN sv
  ELSE [sv EXCEPT !.made[id].closed = TRUE,
                  !.closePending = @ \cup {[id |-> id, by |-> by]}]

\* Server start: ChangeStreamService.initialize(), called once.
Initialize ==
  /\ ~svc.started
  /\ ~svc.isInitialized
  /\ svc' = Initialized(svc)
  /\ UNCHANGED <<dataVars, refs, report, req>>

\* handleChangeStreamError up to setTimeout: the entry registered under the
\* schema's name is marked and one timer is set; without entry it returns.
MarkError(sv, s, t) ==
  LET info == sv.map[s] IN
    IF info = 0 THEN sv
    ELSE [sv EXCEPT !.made[info].status = "error",
                    !.made[info].lastError = sv.errors + 1,
                    !.made[info].errorAt = t,
                    !.timers = Append(@, info)]

\* A stream emits 'error'; the driver may close the stream after emitting
\* (closes) or leave it open.
StreamError(id, closes) ==
  /\ id \in OpenStreams(svc)
  /\ svc.errors < MaxErrors
  /\ LET marked == MarkError(svc, svc.made[id].schema, now)
         after == IF closes THEN CloseStream(marked, id, "driver") ELSE marked IN
       svc' = [after EXCEPT !.errors = @ + 1]
  /\ UNCHANGED <<dataVars, refs, report, req>>

\* on('close') of stream id: changeStreams.delete(schema.name).
CloseEvent(c) ==
  /\ c \in svc.closePending
  /\ svc' = [svc EXCEPT !.map[svc.made[c.id].schema] = 0,
                        !.closePending = @ \ {c}]
  /\ UNCHANGED <<dataVars, refs, report, req>>

\* The setTimeout callback up to await getSchemaByName, 5 seconds after the
\* error (a close the driver did at the error has been delivered by then):
\* the held stream is closed if still open and the name is deleted from the
\* map.
RetryFire ==
  /\ svc.timers # << >>
  /\ LET info == Head(svc.timers)
         s == svc.made[info].schema IN
       /\ [id |-> info, by |-> "driver"] \notin svc.closePending
       /\ svc' = [CloseStream(svc, info, "code") EXCEPT
                    !.map[s] = 0,
                    !.timers = Tail(@),
                    !.retrying = Append(@, s)]
  /\ UNCHANGED <<dataVars, refs, report, req>>

\* The sequence without its k-th element.
Without(q, k) == [i \in 1..(Len(q) - 1) |-> IF i < k THEN q[i] ELSE q[i + 1]]

\* The setTimeout callback after getSchemaByName resolved with the schema:
\* initializeSchemaChangeStream(schema).
RetryAttach(k) ==
  /\ k \in 1..Len(svc.retrying)
  /\ svc' = [InitializeSchemaChangeStream(svc, svc.retrying[k]) EXCEPT
               !.retrying = Without(svc.retrying, k)]
  /\ UNCHANGED <<dataVars, refs, report, req>>

\* handleGlobalChangeEvent: a change in the collection of a schema without
\* map entry attaches a stream to it.
GlobalAttach(s) ==
  /\ svc.global = "open"
  /\ svc.map[s] = 0
  /\ svc' = InitializeSchemaChangeStream(svc, s)
  /\ UNCHANGED <<dataVars, refs, report, req>>

RECURSIVE CloseRegistered(_, _)
\* shutdown's loop over the map, from schema s on.
CloseRegistered(sv, s) ==
  IF s > NSchemas THEN sv
  ELSE CloseRegistered(IF sv.map[s] = 0 THEN sv ELSE CloseStream(sv, sv.map[s], "code"), s + 1)

\* ChangeStreamService.shutdown
ShutdownService(sv) ==
  [CloseRegistered(sv, 1) EXCEPT
     !.global = IF sv.global = "open" THEN "closed" ELSE sv.global,
     !.map = [s \in Schemas |-> 0],
     !.isInitialized = FALSE]

Shutdown ==
  /\ svc.shutdowns < MaxShutdowns
  /\ svc' = [ShutdownService(svc) EXCEPT !.shutdowns = @ + 1]
  /\ UNCHANGED <<dataVars, refs, report, req>>

\* getStatus().streams
GetStatus(sv) ==
  [s \in {x \in Schemas : sv.map[x] # 0} |->
     [status |-> sv.made[sv.map[s]].status,
      lastError |-> sv.made[sv.map[s]].lastError,
      errorAt |-> sv.made[sv.map[s]].errorAt]]

StreamErrors == \E id \in StreamIds, closes \in BOOLEAN : StreamError(id, closes)
CloseEvents == \E c \in svc.closePending : CloseEvent(c)
Retry == RetryFire \/ \E k \in 1..Len(svc.retrying) : RetryAttach(k)
GlobalAttaches == \E s \in Schemas : GlobalAttach(s)

NextService ==
  Initialize \/ StreamErrors \/ CloseEvents \/ Retry \/ GlobalAttaches \/ Shutdown \/ Tick

\* The change-stream service from construction to shutdown.
SpecService == Init /\ [][NextService]_vars

\* ------------------------------------------- ChangePropagation.propagateChanges
\* The referencing collection holds any documents; declared says whether the
\* referencing schema's JSON schema has the <field>_version and
\* <field>_lastUpdated properties (the mongoose schema is strict: a path it
\* does not have is dropped from an update and is undefined on a document).
InitPropagate ==
  /\ store = [d \in Docs |-> Null]
  /\ nextDoc = 1
  /\ ledger = {}
  /\ nextId = 1
  /\ now = 0
  /\ task = [p \in Tasks |-> IdleTask]
  /\ ops = 0
  /\ feed = << >>
  /\ listening = FALSE
  /\ raced = {}
  /\ direct = {}
  /\ bulk = NoBulk
  /\ svc = NewService
  /\ \E docs \in [Deps -> DepDocs], declared \in BOOLEAN :
       refs = [NoRefs EXCEPT !.docs = docs, !.declared = declared]
  /\ report = NoReport
  /\ req = NoRequest

\* The query of findDependentRecords for one relationship.
Matches(doc, rel, recordId) ==
  IF rel.referenceType = "array_reference"
  THEN recordId \in doc[rel.field]
  ELSE doc[rel.field] = recordId

\* Every (relationship, document) pair, relationship by relationship.
Candidates ==
  [k \in 1..(Len(Relationships) * NDeps) |->
     [rel |-> ((k - 1) \div NDeps) + 1, dep |-> ((k - 1) % NDeps) + 1]]

\* findDependentRecords: per relationship that refers to schemaName, the
\* documents whose field holds recordId; nothing without a dynamic model.
FindDependentRecords(docs, loaded, schemaName, recordId) ==
  LET Hit(c) == /\ loaded
                /\ Relationships[c.rel].referencedSchema = schemaName
                /\ docs[c.dep] # Null
                /\ Matches(docs[c.dep], Relationships[c.rel], recordId)
      Dependent(c) == [schemaName |-> "Product", recordId |-> c.dep,
                       field |-> Relationships[c.rel].field,
                       relationshipType |-> Relationships[c.rel].referenceType]
      hits == SelectSeq(Candidates, Hit) IN
    [k \in 1..Len(hits) |-> Dependent(hits[k])]

\* propagateChanges up to the loop: the dependents are looked up; without
\* any it returns {propagated: 0, errors: []}.
PropagateStart(schemaName, recordId) ==
  /\ refs.pc = "idle"
  /\ LET found == FindDependentRecords(refs.docs, refs.loaded, schemaName, recordId) IN
       refs' = [refs EXCEPT !.schema = schemaName, !.record = recordId,
                            !.before = refs.docs, !.found = found, !.i = 1,
                            !.pc = IF found = << >> THEN "done" ELSE "loop"]
  /\ UNCHANGED <<dataVars, svc, report, req>>

PropagationError(dep, msg) ==
  [schemaName |-> dep.schemaName, recordId |-> dep.recordId, error |-> msg]

\* updateDependentRecord up to Model.findById: a missing model or document
\* throws, caught by the loop into errors[]; else the new version is
\* (currentRecord[<field>_version] || 0) + 1.
UpdateDependentFind ==
  /\ refs.pc = "loop"
  /\ refs.i <= Len(refs.found)
  /\ LET dep == refs.found[refs.i]
         doc == refs.docs[dep.recordId] IN
       refs' = IF ~refs.loaded
               THEN [refs EXCEPT !.errors = Append(@, PropagationError(dep, "Model not found")),
                                 !.i = @ + 1]
               ELSE IF doc = Null
               THEN [refs EXCEPT !.errors = Append(@, PropagationError(dep, "not found")),
                                 !.i = @ + 1]
               ELSE [refs EXCEPT !.pc = "write",
                                 !.version = (IF refs.declared
                                              THEN doc.stamps[dep.field].version ELSE 0) + 1]
  /\ UNCHANGED <<dataVars, svc, report, req>>

\* The document after findByIdAndUpdate(recordId, {$set: updateData}): the
\* two stamp paths are set if the schema has them.
Stamped(doc, field, version, t, declared) ==
  IF declared
  THEN [doc EXCEPT !.stamps[field] = [version |-> version, lastUpdated |-> t]]
  ELSE doc

\* updateDependentRecord from Model.findByIdAndUpdate on: the result
\* {updated: true} is returned whether or not a document was found.  A
\* write that sets the stamps reaches the open subscription of the
\* referencing collection as an update event (no before-image: the
\* collection records none).
UpdateDependentWrite ==
  /\ refs.pc = "write"
  /\ LET dep == refs.found[refs.i]
         doc == refs.docs[dep.recordId] IN
       refs' = [refs EXCEPT
                  !.docs[dep.recordId] =
                     IF doc = Null THEN Null
                     ELSE Stamped(doc, dep.field, refs.version, now, refs.declared),
                  !.results = Append(@, [schemaName |-> dep.schemaName,
                                         recordId |-> dep.recordId,
                                         field |-> dep.field, updated |-> TRUE]),
                  !.applied = Append(@, doc # Null),
                  !.i = @ + 1,
                  !.pc = "loop"]
  /\ feed' = IF listening /\ refs.declared
                 /\ refs.docs[refs.found[refs.i].recordId] # Null
              THEN Append(feed, ChangeEvent("update", DepKey(refs.found[refs.i].recordId),
                                            Null, Null))
              ELSE feed
  /\ UNCHANGED <<store, nextDoc, ledger, nextId, now, task, ops, listening, raced, direct, bulk, svc, report, req>>

\* Model.findByIdAndUpdate rejects (write error): caught into errors[].
UpdateDependentWriteFails ==
  /\ refs.pc = "write"
  /\ refs' = [refs EXCEPT
                !.errors = Append(@, PropagationError(refs.found[refs.i], "write failed")),
                !.i = @ + 1,
                !.pc = "loop"]
  /\ UNCHANGED <<dataVars, svc, report, req>>

\* propagateChanges returns {propagated, errors, dependentRecords}.
PropagateReturn ==
  /\ refs.pc = "loop"
  /\ refs.i > Len(refs.found)
  /\ refs' = [refs EXCEPT !.pc = "done"]
  /\ UNCHANGED <<dataVars, svc, report, req>>

Propagated == Len(refs.results)

\* Another request deletes a referencing document.
DeleteDependent(d) ==
  /\ refs.deleted < MaxDeletes
  /\ refs.docs[d] # Null
  /\ refs' = [refs EXCEPT !.docs[d] = Null, !.deleted = @ + 1]
  /\ UNCHANGED <<dataVars, svc, report, req>>

\* The referencing schema is deleted: removeDynamicModel.
UnloadModel ==
  /\ refs.loaded
  /\ refs' = [refs EXCEPT !.loaded = FALSE]
  /\ UNCHANGED <<dataVars, svc, report, req>>

Propagate ==
  \/ \E schemaName \in RefSchemas, recordId \in Records : PropagateStart(schemaName, recordId)
  \/ UpdateDependentFind
  \/ UpdateDependentWrite
  \/ UpdateDependentWriteFails
  \/ PropagateReturn

NextPropagate == Propagate \/ (\E d \in Deps : DeleteDependent(d)) \/ UnloadModel

\* One propagateChanges call beside other requests.
SpecPropagate == InitPropagate /\ [][NextPropagate]_vars

\* ------------------------------------------ AuditService.cleanupOldAuditLogs
\* Options of a cleanup call: olderThan (days, here clock units), the
\* schemaName of the route and an optional operation ("any": not given).
\* The ledger of the model holds the entries of schema 1.
CleanupOptions ==
  {[olderThan |-> o, schemaName |-> 1, operation |-> op] : o \in {-1, 0}, op \in {"any", "create"}}
    \cup {[olderThan |-> -1, schemaName |-> 2, operation |-> "any"]}

\* cutoffDate = new Date() - olderThan days
CutoffDate(t, olderThan) == t - olderThan

\* A query that ignores the operation filter.
CleanupQueryAnyOperation(L, opts, t) ==
  {e \in L : e.timestamp < CutoffDate(t, opts.olderThan) /\ opts.schemaName = 1}

\* The entries the query {timestamp: {$lt: cutoffDate}, schemaName, operation}
\* selects.
CleanupQuery(L, opts, t) ==
  {e \in L : /\ e.timestamp < CutoffDate(t, opts.olderThan)
             /\ opts.schemaName = 1
             /\ opts.operation \in {"any", e.operation}}

\* cleanupOldAuditLogs with dryRun = true: countDocuments(query).
CleanupDryRun(opts) ==
  /\ report.calls < MaxCleanups
  /\ report' = [report EXCEPT
                  !.calls = @ + 1, !.last = "dryRun",
                  !.removal = NoReport.removal,
                  !.preview = [options |-> opts,
                               wouldDelete |-> Cardinality(CleanupQuery(ledger, opts, now)),
                               at |-> now, saw |-> nextId]]
  /\ UNCHANGED <<dataVars, svc, refs, req>>

\* cleanupOldAuditLogs with dryRun = false: deleteMany(query).
CleanupDelete(opts) ==
  /\ report.calls < MaxCleanups
  /\ ledger' = ledger \ CleanupQuery(ledger, opts, now)
  /\ report' = [report EXCEPT
                  !.calls = @ + 1, !.last = "delete",
                  !.removal = [options |-> opts,
                               deleted |-> Cardinality(CleanupQuery(ledger, opts, now)),
                               at |-> now, saw |-> nextId]]
  /\ UNCHANGED <<store, nextDoc, nextId, now, task, ops, feed, listening, raced, direct, bulk, svc, refs, req>>

Cleanup == \E opts \in CleanupOptions : CleanupDryRun(opts) \/ CleanupDelete(opts)

NextCleanup == Tick \/ Crud(StreamProcs) \/ Log \/ Cleanup

\* The audited CRUD service with cleanup calls beside it.
SpecCleanup == Init /\ [][NextCleanup]_vars

\* ---------------------------------------- AuditController.bulkRevertDocuments
\* The request that runs the bulk revert, and the other requests beside it.
BulkProc == NProcs
BesideBulk == Procs \ {BulkProc}

\* The {recordId, targetVersion} items of a request body; 0 is a missing
\* targetVersion.
BulkItemChoices == {[recordId |-> d, targetVersion |-> v] : d \in Docs, v \in 0..2}
BulkBodies == UNION {[1..n -> BulkItemChoices] : n \in 1..MaxBulk}

\* The request arrives with a non-empty documents array.
BulkStart(items) ==
  /\ bulk.pc = "idle"
  /\ Free(BulkProc)
  /\ OpsLeft
  /\ bulk' = [NoBulk EXCEPT !.pc = "run", !.items = items, !.i = 1]
  /\ ops' = ops + 1
  /\ UNCHANGED <<store, nextDoc, ledger, nextId, now, task, feed, listening, raced, direct, svc, refs, report, req>>

\* One turn of the for loop up to await revertToVersion: an item without
\* recordId or targetVersion goes to errors[], any other starts its revert.
BulkRevertItem ==
  /\ bulk.pc = "run"
  /\ bulk.i <= Len(bulk.items)
  /\ LET it == bulk.items[bulk.i] IN
       IF it.recordId = 0 \/ it.targetVersion = 0
       THEN /\ bulk' = [bulk EXCEPT
                 !.failed = Append(@, [recordId |-> it.recordId,
                                       error |-> "recordId and targetVersion are required"]),
                 !.i = @ + 1]
            /\ UNCHANGED <<task, svc, refs, report, req>>
       ELSE /\ RevertLookup(BulkProc, it.recordId, it.targetVersion)
            /\ bulk' = [bulk EXCEPT !.pc = "await"]
  /\ UNCHANGED <<store, nextDoc, ledger, nextId, now, ops, feed, listening, raced, direct, svc, refs, report, req>>

\* result.auditLog.version of the revert that returned.
NewVersion(id) == CHOOSE v \in 0..(nextId + 1) : \A e \in ledger : e._id = id => e.version = v

\* The loop without its per-item try/catch: the first rejected revert ends
\* the request.
BulkCollectAborts ==
  /\ bulk.pc = "await"
  /\ task[BulkProc].pc = "done"
  /\ LET it == bulk.items[bulk.i]
         t == task[BulkProc] IN
       bulk' = IF t.result = "ok"
               THEN [bulk EXCEPT
                       !.successful = Append(@, [recordId |-> it.recordId,
                                                 targetVersion |-> it.targetVersion,
                                                 newVersion |-> NewVersion(t.newId)]),
                       !.i = @ + 1, !.pc = "run"]
               ELSE [bulk EXCEPT !.pc = "done"]
  /\ task' = [task EXCEPT ![BulkProc] = IdleTask]
  /\ UNCHANGED <<store, nextDoc, ledger, nextId, now, ops, feed, listening, raced, direct, svc, refs, report, req>>

\* await revertToVersion settles: a resolved revert is pushed to results[],
\* a rejected one is caught and pushed to errors[]; the loop goes on.
BulkCollect ==
  /\ bulk.pc = "await"
  /\ task[BulkProc].pc = "done"
  /\ LET it == bulk.items[bulk.i]
         t == task[BulkProc] IN
       bulk' = IF t.result = "ok"
               THEN [bulk EXCEPT
                       !.successful = Append(@, [recordId |-> it.recordId,
                                                 targetVersion |-> it.targetVersion,
                                                 newVersion |-> NewVersion(t.newId)]),
                       !.i = @ + 1, !.pc = "run"]
               ELSE [bulk EXCEPT
                       !.failed = Append(@, [recordId |-> it.recordId, error |-> t.error]),
                       !.i = @ + 1, !.pc = "run"]
  /\ task' = [task EXCEPT ![BulkProc] = IdleTask]
  /\ UNCHANGED <<store, nextDoc, ledger, nextId, now, ops, feed, listening, raced, direct, svc, refs, report, req>>

\* The loop is over: the response is built from results[] and errors[].
BulkRespond ==
  /\ bulk.pc = "run"
  /\ bulk.i > Len(bulk.items)
  /\ bulk' = [bulk EXCEPT !.pc = "done"]
  /\ UNCHANGED <<store, nextDoc, ledger, nextId, now, task, ops, feed, listening, raced, direct, svc, refs, report, req>>

\* The fields of the response.
TotalProcessed == Len(bulk.items)
SuccessCount == Len(bulk.successful)
ErrorCount == Len(bulk.failed)

BulkRevert ==
  \/ \E items \in BulkBodies : BulkStart(items)
  \/ BulkRevertItem
  \/ BulkCollect
  \/ BulkRespond

NextBulk == Crud(BesideBulk) \/ RevertSteps({BulkProc}) \/ Log \/ BulkRevert

SpecBulk == Init /\ [][NextBulk]_vars

\* ------------------------------------------------------------- properties
VersionsOf(d) == {e.version : e \in EntriesOf(d)}

\* The versions of d's entries are exactly 1..n, each carried by one entry.
Contiguous(d) ==
  /\ VersionsOf(d) = 1..Cardinality(EntriesOf(d))
  /\ \A e1, e2 \in EntriesOf(d) : e1.version = e2.version => e1 = e2

InLogChange(d) == \E p \in Tasks : task[p].doc = d /\ task[p].pc \in {"logRead", "logSave"}

\* The business fields of a document state.
Business(state) == [f \in BusinessFields |-> state[f]]

CrudOps == {"create", "update", "delete"}

\* C1: once the concurrent logChange calls for a document have all returned,
\* its persisted entries carry exactly the versions 1..K, none shared and
\* none skipped.
C1_ConcurrentVersionsContiguous ==
  \A d \in Docs : ~InLogChange(d) => Contiguous(d)

\* C2: for a document whose logChange calls never overlapped, the persisted
\* versions are exactly the contiguous set 1..n (each call stored highest
\* existing version + 1), whatever was logged for other documents.
C2_SequentialVersionsContiguous ==
  \A d \in Docs : d \notin raced => Contiguous(d)

C2_Witness ==
  \E d \in Docs :
    /\ d \notin raced
    /\ Cardinality(EntriesOf(d)) >= 2
    /\ \E d2 \in Docs \ {d} : EntriesOf(d2) # {}

\* AuditService.getDocumentAtVersion: the results the lookup may return (one
\* per entry the findOne may pick), or Null when no entry has the version.
GetDocumentAtVersion(d, v) ==
  IF FindByVersion(d, v) = {} THEN {Null}
  ELSE {[version |-> e.version, timestamp |-> e.timestamp, operation |-> e.operation,
         state |-> e.currentState] : e \in FindByVersion(d, v)}

\* C4: whenever logChange persisted an entry with currentState S and version
\* v, getDocumentAtVersion(documentId, schemaName, v) returns a result whose
\* state is S.
C4_StateRoundTrip ==
  \A e \in ledger :
    \A r \in GetDocumentAtVersion(e.documentId, e.version) :
      r # Null /\ r.state = e.currentState

\* C6: when revertToVersion returns successfully and nobody else wrote the
\* document since the apply, the live document and the target version's
\* currentState agree on every business field (presence and value).
C6_RevertRestoresBusinessFields ==
  [][\A p \in Procs :
       ( /\ task[p].op = "revert" /\ task[p].pc = "patch"
         /\ task'[p].pc = "done" /\ task'[p].result = "ok"
         /\ store[task[p].doc] = task[p].cur )
       => Business(store'[task[p].doc]) = Business(task[p].data)]_vars

\* C7: a revert that fails at or before the apply step reports an error,
\* writes no ledger entry and leaves the store unchanged; and every revert
\* entry in the ledger records a document the apply step produced.
C7_FailedRevertWritesNothing ==
  /\ [][\A p \in Procs :
          ( /\ task'[p] # task[p]
            /\ task[p].pc \in {"idle", "done", "current", "apply"}
            /\ task'[p].op = "revert" /\ task'[p].pc = "done" )
          => ( /\ task'[p].result = "error"
               /\ ledger' = ledger
               /\ store' = store )]_vars
  /\ [](\A e \in ledger : e.isRevert =>
          /\ e.currentState # Null
          /\ \E t \in FindByVersion(e.documentId, e.revertedToVersion) :
               /\ t.currentState # Null
               /\ \A f \in BusinessFields :
                    t.currentState[f] # Absent => e.currentState[f] = t.currentState[f])

\* A revert aborted at the apply step by a concurrent delete.
C7_Witness ==
  \E p \in Procs :
    /\ task[p].op = "revert" /\ task[p].pc = "done"
    /\ task[p].error = "apply failed"
    /\ store[task[p].doc] = Null

\* C9: when logChange fails inside createRecord, updateRecord, deleteRecord
\* or bulkCreateRecords, the committed mutation stays in the store and the
\* operation returns its success result; no such operation ever ends in an
\* error because of the ledger.
C9_LogFailureNotPropagated ==
  /\ [][\A p \in Procs :
          ( /\ task[p].op \in CrudOps \cup {"bulkCreate"}
            /\ task[p].pc = "logSave"
            /\ task'[p] # task[p]
            /\ ledger' = ledger )
          => ( /\ store' = store
               /\ task'[p].logFailed
               /\ task'[p].pc \in {"done", "logRead"}
               /\ task'[p].result # "error"
               /\ task'[p].pc = "done" => task'[p].result = "ok" )]_vars
  /\ [](\A p \in Procs :
          (task[p].op \in CrudOps \cup {"bulkCreate"} /\ task[p].pc = "done" /\ task[p].logFailed)
          => (task[p].result = "ok" /\ task[p].error = "none"))

C9_Witness ==
  \E p \in Procs :
    /\ task[p].op = "update" /\ task[p].pc = "done"
    /\ task[p].logFailed /\ task[p].result = "ok"
    /\ store[task[p].doc] # Null /\ store[task[p].doc].a = 2
    /\ \A e \in EntriesOf(task[p].doc) : e.operation # "update"
\* An update entry the listener wrote for an event without a before-image.
UpdateWithoutPrevious(e) ==
  /\ e.operation = "update" /\ e.source = "changeStream"
  /\ e.previousState = Null /\ e.currentState # Null

\* C3 as claimed: every ledger entry, whichever caller wrote it, has
\* create => previousState null, delete => currentState null, and
\* update => both states non-null.
C3_EveryEntryShape ==
  \A e \in ledger :
    /\ e.operation = "create" => e.previousState = Null
    /\ e.operation = "delete" => e.currentState = Null
    /\ e.operation = "update" => e.previousState # Null /\ e.currentState # Null

\* C3 as amended: every ledger entry has create => previousState null,
\* delete => currentState null and update => currentState non-null; an
\* update entry also has previousState non-null unless the change-stream
\* listener wrote it.
C3_EntryShape ==
  \A e \in ledger :
    /\ e.operation = "create" => e.previousState = Null
    /\ e.operation = "delete" => e.currentState = Null
    /\ e.operation = "update" => e.currentState # Null
    /\ e.operation = "update" /\ e.source # "changeStream" => e.previousState # Null

C3_Witness ==
  /\ \E e \in ledger : UpdateWithoutPrevious(e)
  /\ \E e \in ledger : e.operation = "create" /\ e.source = "api"

\* getAuditHistory's first entry: the query sorts L by timestamp descending,
\* so any entry of the latest timestamp may come first.
HistoryFirst(L) == {e \in L : \A e2 \in L : e2.timestamp <= e.timestamp}

\* C5: when revertToVersion(D, schema, V) returns successfully, the first
\* entry of getAuditHistory(D, schema) is the new update entry, with
\* isRevert = true, revertedToVersion = V and revertedFrom = the _id of the
\* entry of version V.  (Stated for reverts whose entry is newer than every
\* entry of a lower version, so that no tie with an older entry decides it.)
C5_RevertEntryIsLatest ==
  [][\A p \in Procs :
       ( /\ task[p].op = "revert" /\ task[p].pc = "patch"
         /\ task'[p].pc = "done" /\ task'[p].result = "ok" )
       => LET L == {e \in ledger' : e.documentId = task[p].doc}
              new == {e \in L : e._id = task[p].newId} IN
            (\A n \in new : \A e \in L : e.version < n.version => e.timestamp < n.timestamp)
            => \A f \in HistoryFirst(L) :
                 /\ f._id = task[p].newId
                 /\ f.operation = "update"
                 /\ f.isRevert
                 /\ f.revertedToVersion = task[p].target
                 /\ \E t \in L : t.version = task[p].target /\ f.revertedFrom = t._id]_vars

ListenerQuiet ==
  /\ feed = << >>
  /\ \A h \in Handlers : Free(h)
  /\ \A w \in direct : w.type # "dropped"

\* C10: with the subscription open, once the feed is drained and every
\* handler has returned without a logging failure, each direct insert,
\* update and delete has a ledger entry for its document with the matching
\* operation and metadata.source = 'changeStream'.
C10_DirectWritesLogged ==
  ListenerQuiet =>
    \A w \in direct :
      \E e \in ledger :
        /\ e.documentId = w.doc
        /\ e.operation = MapOperationType(w.type)
        /\ e.source = "changeStream"
\* The bulk revert is working on an item whose revert wrote nothing so far.
BulkItemPending == bulk.pc = "await" /\ task[BulkProc].pc \in {"done", "current", "apply"}

\* C8: a bulk revert handles each item on its own.  The loop never stops
\* early and counts every item once (successCount + errorCount = number of
\* items once it responds); an item whose revert fails before its apply
\* (e.g. a version without entry) is written to failed[] with its error
\* message and to nothing else, neither the store nor the ledger; every item
\* in successful[] has its revert entry in the ledger under the reported
\* version.
C8_BulkItemsIndependent ==
  /\ [](bulk.pc = "done" => SuccessCount + ErrorCount = TotalProcessed)
  /\ [](bulk.pc \in {"run", "await"} =>
          SuccessCount + ErrorCount = bulk.i - 1 /\ bulk.i <= TotalProcessed + 1)
  /\ [](\A k \in 1..SuccessCount :
          \E e \in ledger :
            /\ e.documentId = bulk.successful[k].recordId
            /\ e.isRevert
            /\ e.revertedToVersion = bulk.successful[k].targetVersion
            /\ e.version = bulk.successful[k].newVersion)
  /\ [][ /\ (bulk.pc = "run" /\ bulk'.pc = "await" /\ task'[BulkProc].pc = "done")
            => (task'[BulkProc].result = "error" /\ store' = store /\ ledger' = ledger)
         /\ (BulkItemPending /\ bulk'.i # bulk.i /\ task[BulkProc].result = "error")
            => /\ bulk'.failed = Append(bulk.failed,
                                        [recordId |-> bulk.items[bulk.i].recordId,
                                         error |-> task[BulkProc].error])
               /\ bulk'.successful = bulk.successful
               /\ bulk'.i = bulk.i + 1
               /\ bulk'.pc = "run"
               /\ store' = store /\ ledger' = ledger
         /\ (BulkItemPending /\ task'[BulkProc] # task[BulkProc] /\ task'[BulkProc].pc = "done")
            => (task'[BulkProc].result = "error" /\ store' = store /\ ledger' = ledger)
       ]_vars

\* Three items, the first one naming a version without entry: it alone is
\* in failed[], the two after it are in successful[].
C8_Witness ==
  /\ bulk.pc = "done"
  /\ TotalProcessed = 3
  /\ SuccessCount = 2
  /\ ErrorCount = 1
  /\ bulk.failed[1].recordId = bulk.items[1].recordId
  /\ bulk.failed[1].error = "version not found"
\* C11: a logChange failure inside handleChangeEvent is swallowed: the
\* handler returns, the service object (map, statuses, streams) and the
\* subscription are as before, the schema's stream is still reported
\* 'active', and the events still in the feed stay there to be handled.
C11_HandlerFailureSwallowed ==
  [][\A h \in Handlers :
       ( /\ task[h].op = "changeEvent" /\ task[h].pc = "logSave"
         /\ task'[h] # task[h]
         /\ ledger' = ledger )
       => ( /\ task'[h] = IdleTask
            /\ svc' = svc
            /\ listening' = listening
            /\ feed' = feed
            /\ \A s \in Schemas : s \in DOMAIN GetStatus(svc')
                                  /\ GetStatus(svc')[s].status = "active" )]_vars

\* An event's logging failed and a later event was logged by the listener.
C11_Witness ==
  /\ listening
  /\ \E w \in direct :
       /\ w.type = "dropped"
       /\ \E e \in ledger : e.source = "changeStream" /\ e._id >= w.at

\* No timer, retry callback or 'close' event is outstanding.
ServiceSettled ==
  /\ svc.timers = << >>
  /\ svc.retrying = << >>
  /\ svc.closePending = {}

\* C12: after a subscription-level error the schema's entry shows status
\* 'error' with lastError and errorAt until the reattach attempt runs, and
\* once the attempt is over the schema has one registered subscription,
\* open and 'active', and every older stream of the schema is closed.
C12_ReattachRestoresSubscription ==
  /\ \A k \in 1..Len(svc.timers) :
       LET s == svc.made[svc.timers[k]].schema IN
         svc.shutdowns = 0 =>
         /\ s \in DOMAIN GetStatus(svc)
         /\ GetStatus(svc)[s].status = "error"
         /\ GetStatus(svc)[s].lastError # 0
         /\ GetStatus(svc)[s].errorAt # -1
  /\ (ServiceSettled /\ svc.isInitialized /\ svc.shutdowns = 0) =>
       \A s \in Schemas :
         /\ svc.map[s] # 0
         /\ svc.made[svc.map[s]].status = "active"
         /\ \A id \in StreamIds :
              svc.made[id].schema = s => (svc.made[id].closed <=> id # svc.map[s])

\* C13: a shutdown call leaves every subscription closed (per-schema and
\* global), the map empty and isInitialized false, also when the service
\* was never initialized or is already shut down.
C13_ShutdownClosesEverything ==
  [][svc'.shutdowns # svc.shutdowns =>
       /\ OpenStreams(svc') = {}
       /\ svc'.global # "open"
       /\ \A s \in Schemas : svc'.map[s] = 0
       /\ ~svc'.isInitialized]_vars
\* Document d referenced the propagated record through field f when the
\* dependents were looked up.
Referenced(d, f) ==
  \E k \in 1..Len(Relationships) :
    /\ Relationships[k].field = f
    /\ Relationships[k].referencedSchema = refs.schema
    /\ refs.before[d] # Null
    /\ Matches(refs.before[d], Relationships[k], refs.record)

\* A propagateChanges call has returned with no error and no other request
\* has touched the referencing collection.
PropagatedUndisturbed ==
  /\ refs.pc = "done"
  /\ refs.errors = << >>
  /\ refs.deleted = 0
  /\ refs.loaded

\* C14: after propagateChanges(schemaName, recordId), each document that
\* referenced recordId through a relationship to schemaName has that
\* field's <field>_version incremented and <field>_lastUpdated set, and
\* every other stamp, every other field and every other document is as
\* before.
C14_StampsExactlyDependents ==
  PropagatedUndisturbed =>
    \A d \in Deps :
      /\ refs.docs[d].category = refs.before[d].category
      /\ refs.docs[d].related = refs.before[d].related
      /\ refs.docs[d].supplier = refs.before[d].supplier
      /\ \A f \in RefFields :
           IF Referenced(d, f)
           THEN /\ refs.docs[d].stamps[f].version = refs.before[d].stamps[f].version + 1
                /\ refs.docs[d].stamps[f].lastUpdated # -1
           ELSE refs.docs[d].stamps[f] = refs.before[d].stamps[f]

\* C15: when propagateChanges returns, propagated + errors.length is the
\* number of dependents found, each error names its dependent, and each
\* dependent counted in propagated was stamped (the referencing schema
\* having the stamp fields).
C15_DependentFailuresCollected ==
  (refs.pc = "done" /\ refs.declared) =>
    /\ Propagated + Len(refs.errors) = Len(refs.found)
    /\ \A k \in 1..Len(refs.errors) :
         \E j \in 1..Len(refs.found) :
           /\ refs.errors[k].schemaName = refs.found[j].schemaName
           /\ refs.errors[k].recordId = refs.found[j].recordId
    /\ \A k \in 1..Propagated : refs.applied[k]
\* Entry e matches the cutoff / schemaName / operation filters at time t.
MatchesFilters(e, opts, t) ==
  /\ e.timestamp < t - opts.olderThan
  /\ opts.schemaName = 1
  /\ opts.operation = "any" \/ opts.operation = e.operation

\* The step is a deleting cleanup call that follows a dry run with the same
\* filters, the ledger not written in between.
FollowUpDelete ==
  /\ report.last = "dryRun"
  /\ report'.last = "delete"
  /\ report'.removal.options = report.preview.options
  /\ report.preview.saw = nextId

\* C16 as claimed: the deleting call that follows a dry run with the same
\* filters deletes exactly wouldDelete entries.
C16_FollowUpDeletesPreviewCount ==
  [][FollowUpDelete => report'.removal.deleted = report.preview.wouldDelete]_vars

\* C16 as amended: a dry run deletes nothing and reports the number of
\* entries matching the filters at its time; the deleting call that follows
\* deletes exactly the entries matching the filters at its own time, which
\* are at least wouldDelete, and exactly wouldDelete when the clock has not
\* moved the cutoff in between.
C16_DryRunThenDelete ==
  [][ /\ (report'.calls # report.calls /\ report'.last = "dryRun") =>
           /\ ledger' = ledger
           /\ report'.preview.wouldDelete =
                Cardinality({e \in ledger : MatchesFilters(e, report'.preview.options, now)})
      /\ FollowUpDelete =>
           LET gone == {e \in ledger : MatchesFilters(e, report'.removal.options, now)} IN
             /\ ledger' = ledger \ gone
             /\ report'.removal.deleted = Cardinality(gone)
             /\ report'.removal.deleted >= report.preview.wouldDelete
             /\ now = report.preview.at => report'.removal.deleted = report.preview.wouldDelete
    ]_vars

\* A dry run counted entries, some of a non-matching operation were left
\* out, and the deleting call after it removed that many.
C16_Witness ==
  /\ report.last = "delete"
  /\ report.removal.options = report.preview.options
  /\ report.removal.saw = report.preview.saw
  /\ report.removal.deleted = report.preview.wouldDelete
  /\ report.removal.deleted > 0
  /\ report.removal.options.operation = "create"
  /\ ledger # {}
\* Entry f is entry e with nothing but revertedFrom attached, for the first
\* time, on an entry written by revertToVersion.
RevertedFromAttached(e, f) ==
  /\ f = [e EXCEPT !.revertedFrom = f.revertedFrom]
  /\ e.revertedFrom = 0
  /\ f.revertedFrom # 0
  /\ e.isRevert

\* C17: a persisted ledger entry stays in the ledger with every field as it
\* was saved; the only change any step makes to it is attaching revertedFrom,
\* once, and only to an entry written by revertToVersion.
C17_EntriesImmutable ==
  [][\A e \in ledger :
       \E f \in ledger' : f._id = e._id /\ (f = e \/ RevertedFromAttached(e, f))]_vars

\* A revert entry has had revertedFrom attached while the entry it points at
\* is still as it was saved.
C17_Witness ==
  \E e \in ledger, t \in ledger :
    /\ e.isRevert /\ e.revertedFrom = t._id
    /\ ~t.isRevert /\ t.revertedFrom = 0
    /\ \A p \in Procs : task[p].pc # "patch"
\* ------------------------------------------------ versioned audit routes
\* Version texts a URL can carry (route parameter or query value), as
\* sequences of characters.
RawVersions ==
  { << >>, <<"a">>, <<"0">>, <<"-", "1">>, <<"1">>, <<"2">>,
    <<"1", ".", "5">>, <<"2", "a">> }

\* The longest prefix of s made of digits.
RECURSIVE LeadingDigits(_)
LeadingDigits(s) ==
  IF s = << >> \/ ~IsDigit(Head(s)) THEN << >>
  ELSE <<Head(s)>> \o LeadingDigits(Tail(s))

\* The number a sequence of digits denotes.
RECURSIVE DecimalValue(_)
DecimalValue(ds) ==
  IF ds = << >> THEN 0
  ELSE 10 * DecimalValue(SubSeq(ds, 1, Len(ds) - 1)) + DigitValue(ds[Len(ds)])

\* parseInt(text): an optional sign, then the leading digits; whatever
\* follows them is ignored, and NaN results when there is no digit.
ParseInt(text) ==
  LET signed == text # << >> /\ Head(text) \in {"-", "+"}
      ds == LeadingDigits(IF signed THEN Tail(text) ELSE text) IN
    IF ds = << >> THEN [isNaN |-> TRUE, value |-> 0]
    ELSE [isNaN |-> FALSE,
          value |-> IF Head(text) = "-" THEN 0 - DecimalValue(ds) ELSE DecimalValue(ds)]

VersionRoutes == {"version", "revert", "compare"}

\* A request arrives at GET .../version/:version, POST .../revert/:version
\* (one text, never empty in a matched route) or GET .../compare (the
\* fromVersion and toVersion query values).
VersionRequest(route, d, raw) ==
  /\ req.pc = "idle"
  /\ req.served < MaxRequests
  /\ bulk.pc = "idle"
  /\ Len(raw) = (IF route = "compare" THEN 2 ELSE 1)
  /\ route # "compare" => raw[1] # << >>
  /\ req' = [NoRequest EXCEPT !.route = route, !.recordId = d, !.raw = raw,
                              !.pc = IF route = "compare" THEN "controller" ELSE "validate",
                              !.served = req.served + 1]
  /\ UNCHANGED <<dataVars, svc, refs, report>>

\* isNaN(versionNum) || versionNum < 1
InvalidVersion(text) == ParseInt(text).isNaN \/ ParseInt(text).value < 1

\* The validateVersionNumber middleware.
ValidateVersionNumber ==
  /\ req.pc = "validate"
  /\ req' = IF req.raw[1] = << >> \/ InvalidVersion(req.raw[1])
            THEN [req EXCEPT !.pc = "done", !.status = 400]
            ELSE [req EXCEPT !.pc = "controller",
                             !.targetVersion = ParseInt(req.raw[1]).value]
  /\ UNCHANGED <<dataVars, svc, refs, report>>

\* AuditController.getDocumentAtVersion
GetDocumentAtVersionRoute ==
  /\ req.pc = "controller"
  /\ req.route = "version"
  /\ LET versionNum == ParseInt(req.raw[1]) IN
       req' = IF InvalidVersion(req.raw[1])
              THEN [req EXCEPT !.pc = "done", !.status = 400]
              ELSE [req EXCEPT !.pc = "done",
                               !.invoked = Append(@, versionNum.value),
                               !.status = IF GetDocumentAtVersion(req.recordId, versionNum.value) = {Null}
                                          THEN 404 ELSE 200]
  /\ UNCHANGED <<dataVars, svc, refs, report>>

\* AuditController.revertDocumentToVersion up to await revertToVersion.
RevertDocumentToVersionRoute ==
  /\ req.pc = "controller"
  /\ req.route = "revert"
  /\ Free(BulkProc)
  /\ LET versionNum == ParseInt(req.raw[1]) IN
       IF InvalidVersion(req.raw[1])
       THEN /\ req' = [req EXCEPT !.pc = "done", !.status = 400]
            /\ UNCHANGED task
       ELSE /\ req' = [req EXCEPT !.pc = "await", !.invoked = Append(@, versionNum.value)]
            /\ RevertLookup(BulkProc, req.recordId, versionNum.value)
  /\ UNCHANGED <<store, nextDoc, ledger, nextId, now, ops, feed, listening, raced, direct, bulk, svc, refs, report>>

\* AuditController.revertDocumentToVersion once revertToVersion has settled.
RevertDocumentResponds ==
  /\ req.pc = "await"
  /\ task[BulkProc].pc = "done"
  /\ req' = [req EXCEPT !.pc = "done",
                        !.status = IF task[BulkProc].result = "ok" THEN 200 ELSE 400]
  /\ task' = [task EXCEPT ![BulkProc] = IdleTask]
  /\ UNCHANGED <<store, nextDoc, ledger, nextId, now, ops, feed, listening, raced, direct, bulk, svc, refs, report>>

\* AuditController.compareDocumentVersions: both versions are looked up
\* before either result is examined.
CompareDocumentVersions ==
  /\ req.pc = "controller"
  /\ req.route = "compare"
  /\ LET fromVersion == req.raw[1]
         toVersion == req.raw[2]
         fromVersionNum == ParseInt(fromVersion)
         toVersionNum == ParseInt(toVersion) IN
       req' = IF fromVersion = << >> \/ toVersion = << >>
              THEN [req EXCEPT !.pc = "done", !.status = 400]
              ELSE IF fromVersionNum.isNaN \/ toVersionNum.isNaN
              THEN [req EXCEPT !.pc = "done", !.status = 400]
              ELSE [req EXCEPT
                      !.pc = "done",
                      !.invoked = <<fromVersionNum.value, toVersionNum.value>>,
                      !.status =
                        IF \/ GetDocumentAtVersion(req.recordId, fromVersionNum.value) = {Null}
                           \/ GetDocumentAtVersion(req.recordId, toVersionNum.value) = {Null}
                        THEN 404 ELSE 200]
  /\ UNCHANGED <<dataVars, svc, refs, report>>

\* Bodies of a bulk revert whose targetVersion is any JSON integer; 0 stands
\* for a missing one as well.
VersionBodies ==
  {<<[recordId |-> d, targetVersion |-> v]>> : d \in Docs, v \in -1..2}

\* A bulk revert arrives instead of a single-document request.
BulkVersionStart(items) ==
  /\ req.pc = "idle"
  /\ req.served = 0
  /\ BulkStart(items)

\* The version texts of one request: one, or fromVersion and toVersion.
RequestTexts == {<<text>> : text \in RawVersions} \cup (RawVersions \X RawVersions)

VersionRequests ==
  \E route \in VersionRoutes, d \in Docs, raw \in RequestTexts : VersionRequest(route, d, raw)

BulkVersionStarts == \E items \in VersionBodies : BulkVersionStart(items)

NextRoutes ==
  \/ Crud(BesideBulk) \/ Log \/ RevertSteps({BulkProc})
  \/ VersionRequests \/ ValidateVersionNumber \/ GetDocumentAtVersionRoute
  \/ RevertDocumentToVersionRoute \/ RevertDocumentResponds \/ CompareDocumentVersions
  \/ BulkVersionStarts \/ BulkRevertItem \/ BulkCollect \/ BulkRespond

SpecRoutes == Init /\ [][NextRoutes]_vars

\* The text is the decimal numeral of a positive integer.
PositiveIntegerText(text) ==
  /\ text # << >>
  /\ \A i \in 1..Len(text) : IsDigit(text[i])
  /\ DecimalValue(text) >= 1

\* C19: a request at a versioned route whose version text is not a positive
\* integer is answered 400 without any AuditService call, a bulk-revert item
\* whose targetVersion is not a positive integer never starts a revert, and
\* AuditService is only ever called with a positive integer version.
C19_VersionsValidatedFirst ==
  /\ \A i \in 1..Len(req.invoked) : req.invoked[i] >= 1
  /\ (req.pc \in {"await", "done"} /\ \E i \in 1..Len(req.raw) : ~PositiveIntegerText(req.raw[i]))
       => req.invoked = << >> /\ req.status \in {0, 400}
  /\ task[BulkProc].op = "revert" => task[BulkProc].target >= 1

\* --------------------------------------------- AuditService.getAuditHistory
\* Math.ceil(total / limit)
TotalPages(total, limit) == (total + limit - 1) \div limit

\* The orders find(query).sort({timestamp: -1}) may return S in: newest
\* first, entries of equal timestamp in any order.
TimestampOrders(S) ==
  {o \in [1..Cardinality(S) -> S] :
     /\ \A i, j \in 1..Cardinality(S) : i # j => o[i] # o[j]
     /\ \A i, j \in 1..Cardinality(S) : i < j => o[i].timestamp >= o[j].timestamp}

\* The orders of a sort by version, newest version first.
VersionOrders(S) ==
  {o \in [1..Cardinality(S) -> S] :
     /\ \A i, j \in 1..Cardinality(S) : i # j => o[i] # o[j]
     /\ \A i, j \in 1..Cardinality(S) : i < j => o[i].version >= o[j].version}

\* .skip(skip).limit(limit)
SkipLimit(o, skip, limit) ==
  SubSeq(o, skip + 1, IF skip + limit < Len(o) THEN skip + limit ELSE Len(o))

\* getAuditHistory up to countDocuments(query).
HistoryCount(d, page, limit) ==
  /\ req.pc = "idle"
  /\ req.served < MaxRequests
  /\ req' = [NoRequest EXCEPT
               !.route = "history", !.pc = "find", !.recordId = d,
               !.served = req.served + 1, !.seen = nextId,
               !.pagination = [currentPage |-> page,
                               totalPages |-> TotalPages(Cardinality(EntriesOf(d)), limit),
                               totalRecords |-> Cardinality(EntriesOf(d)),
                               hasNextPage |-> page < TotalPages(Cardinality(EntriesOf(d)), limit),
                               hasPrevPage |-> page > 1,
                               limit |-> limit]]
  /\ UNCHANGED <<dataVars, svc, refs, report>>

\* getAuditHistory, find(query).sort().skip().limit(): the page is read and
\* the result returned.
HistoryFind ==
  /\ req.pc = "find"
  /\ \E o \in TimestampOrders(EntriesOf(req.recordId)) :
       req' = [req EXCEPT
                 !.pc = "done", !.status = 200,
                 !.auditLogs = SkipLimit(o, (req.pagination.currentPage - 1) * req.pagination.limit,
                                         req.pagination.limit)]
  /\ UNCHANGED <<dataVars, svc, refs, report>>

History ==
  \/ \E d \in Docs, page \in 1..MaxPage, limit \in 1..MaxLimit : HistoryCount(d, page, limit)
  \/ HistoryFind

NextHistory == Tick \/ Crud(StreamProcs) \/ Log \/ History

SpecHistory == Init /\ [][NextHistory]_vars

\* The pages the given orders have at that page number and size.
PageOf(orders, page, limit) ==
  {SkipLimit(o, (page - 1) * limit, limit) : o \in orders}

\* C18: the page getAuditHistory returns is in strictly descending version
\* order and holds the entries ranked (p-1)*limit+1 .. p*limit by version,
\* with totalRecords, totalPages, hasNextPage and hasPrevPage as defined.
\* (Stated for calls during which no entry was written.)
C18_HistoryByVersionDescending ==
  [][(req.pc = "find" /\ req'.pc = "done" /\ req.seen = nextId) =>
       LET logs == req'.auditLogs
           pg == req'.pagination
           total == Cardinality(EntriesOf(req.recordId)) IN
         /\ \A i, j \in 1..Len(logs) : i < j => logs[i].version > logs[j].version
         /\ logs \in PageOf(VersionOrders(EntriesOf(req.recordId)), pg.currentPage, pg.limit)
         /\ pg.totalRecords = total
         /\ pg.totalPages * pg.limit >= total /\ (pg.totalPages - 1) * pg.limit < total
         /\ pg.hasNextPage = (pg.currentPage < pg.totalPages)
         /\ pg.hasPrevPage = (pg.currentPage > 1)]_vars

\* The value a state has for a field; a null state has none.
ValueIn(state, f) == IF state = Null THEN Absent ELSE state[f]

\* The items of the fields whose value differs between the two states.
Differences(previousState, currentState) ==
  {[field |-> f, oldValue |-> ValueIn(previousState, f), newValue |-> ValueIn(currentState, f)] :
     f \in {g \in BusinessFields : ValueIn(previousState, g) # ValueIn(currentState, g)}}

\* C20 as claimed: an update entry's changedFields are exactly the items of
\* the business fields that differ between previousState and currentState;
\* a create or delete entry has none.
C20_ChangedFieldsExactDiff ==
  \A e \in ledger :
    e.changedFields = IF e.operation = "update"
                      THEN Differences(e.previousState, e.currentState)
                      ELSE {}

\* C20 as amended: the diff is exact for an update entry that has both
\* states; an entry with a null previousState or currentState, and every
\* create or delete entry, has no changedFields.
C20_ChangedFieldsOfFullUpdates ==
  \A e \in ledger :
    e.changedFields =
      IF e.operation = "update" /\ e.previousState # Null /\ e.currentState # Null
      THEN Differences(e.previousState, e.currentState)
      ELSE {}

\* An update entry lists a field that was added and leaves out one that kept
\* its value, beside a create entry and an update entry that has no
\* previousState and no changedFields.
C20_Witness ==
  /\ \E e \in ledger :
       e.operation = "update" /\ e.previousState = Null /\ e.changedFields = {}
  /\ \E e \in ledger :
       /\ e.operation = "update"
       /\ \E it \in e.changedFields : it.oldValue = Absent /\ it.newValue # Absent
       /\ \E f \in BusinessFields :
            /\ e.previousState[f] # Absent
            /\ e.previousState[f] = e.currentState[f]
            /\ \A it \in e.changedFields : it.field # f
  /\ \E e \in ledger : e.operation = "create"

\* ------------------------------------------- failed and interrupted mutations
\* The errors createRecord, updateRecord and deleteRecord throw before their
\* first store access (deleteRecord does not validate); for createRecord a
\* rejected record.save() as well.
RejectReasons(op) ==
  {"schema not found", "model not found"}
    \cup (IF op = "delete" THEN {} ELSE {"validation failed"})
    \cup (IF op = "create" THEN {"store write error"} ELSE {})

\* The request throws before anything is written.
RequestRejected(p, op, reason) ==
  /\ Free(p)
  /\ OpsLeft
  /\ reason \in RejectReasons(op)
  /\ task' = [task EXCEPT ![p] =
       [IdleTask EXCEPT !.op = op, !.pc = "done", !.result = "error", !.error = reason]]
  /\ ops' = ops + 1
  /\ UNCHANGED <<store, nextDoc, ledger, nextId, now, feed, listening, raced, direct, bulk, svc, refs, report, req>>

\* findOneAndUpdate / findOneAndDelete rejects: the outer catch rethrows.
StoreWriteFails(p) ==
  /\ task[p].op \in {"update", "delete"}
  /\ task[p].pc = "apply"
  /\ task' = [task EXCEPT ![p] = Finish(p, "error", "store write error", FALSE)]
  /\ UNCHANGED <<store, nextDoc, ledger, nextId, now, ops, feed, listening, raced, direct, bulk, svc, refs, report, req>>

\* The server process dies: every request in flight stops where it is.
Crash ==
  /\ \E p \in Procs : ~Free(p) /\ task[p].pc # "crashed"
  /\ task' = [p \in DOMAIN task |->
                IF Free(p) THEN task[p] ELSE [task[p] EXCEPT !.pc = "crashed"]]
  /\ UNCHANGED <<store, nextDoc, ledger, nextId, now, ops, feed, listening, raced, direct, bulk, svc, refs, report, req>>

MutationFailures ==
  \E p \in Procs :
    \/ \E op \in {"create", "update", "delete"} :
         \E reason \in RejectReasons(op) : RequestRejected(p, op, reason)
    \/ StoreWriteFails(p)

NextCommit == Crud(Procs) \/ Log \/ MutationFailures \/ Crash

SpecCommit == Init /\ [][NextCommit]_vars

InLogChangeCall(t) == t.pc \in {"logRead", "logSave"}

\* C21: a request enters logChange only in the step that commits its
\* mutation (a create inserts, an update or delete hits an existing
\* document); every API-path entry is written by such a request, for the
\* mutation it committed; a request that fails writes neither the store nor
\* the ledger and never entered logChange; a request stopped by a crash
\* between its commit and its ledger write never writes its entry.
C21_LedgerWriteAfterCommit ==
  [][\A p \in Procs :
       /\ (~InLogChangeCall(task[p]) /\ InLogChangeCall(task'[p])) =>
            /\ store'[task'[p].doc] = task'[p].cur
            /\ (task'[p].cur = Null) = (task'[p].logOp = "delete")
            /\ (store[task'[p].doc] = Null) = (task'[p].logOp = "create")
       /\ (task'[p] # task[p] /\ task'[p].pc = "done" /\ task'[p].result = "error") =>
            /\ ~InLogChangeCall(task[p])
            /\ store' = store
            /\ ledger' = ledger
       /\ task[p].pc = "crashed" => task'[p] = task[p]
       /\ (task[p].pc # "crashed" /\ task'[p].pc = "crashed") => ledger' = ledger
       /\ \A e \in ledger' \ ledger :
            e.source = "api" =>
              \E q \in Procs :
                /\ task[q].pc = "logSave"
                /\ e.documentId = task[q].doc /\ e.operation = task[q].logOp
                /\ e.previousState = task[q].prev /\ e.currentState = task[q].cur
                /\ store' = store]_vars

\* A request crashed after committing a document that has no entry, beside a
\* request that failed validation.
C21_Witness ==
  \E p \in Procs, q \in Procs :
    /\ task[p].pc = "crashed" /\ task[p].source = "api"
    /\ store[task[p].doc] # Null /\ store[task[p].doc] = task[p].cur
    /\ EntriesOf(task[p].doc) = {}
    /\ task[q].result = "error" /\ task[q].error = "validation failed"
    /\ ledger # {}

\* C22: once updateRecord or deleteRecord has returned successfully, the
\* Dependency Propagator has been invoked (propagateChanges has started or
\* finished a run).
C22_PropagatorInvokedAfterWrite ==
  \A p \in Procs :
    (task[p].op \in {"update", "delete"} /\ task[p].pc = "done" /\ task[p].result = "ok")
      => (refs.pc # "idle" \/ refs.schema # "none")

\* ------------------------------------- propagation on a watched collection
\* The referencing collection with its change subscription open.
InitWatched ==
  /\ store = [d \in Docs |-> Null]
  /\ nextDoc = 1
  /\ ledger = {}
  /\ nextId = 1
  /\ now = 0
  /\ task = [p \in Tasks |-> IdleTask]
  /\ ops = 0
  /\ feed = << >>
  /\ listening = TRUE
  /\ raced = {}
  /\ direct = {}
  /\ bulk = NoBulk
  /\ svc = Initialized(NewService)
  /\ \E docs \in [Deps -> DepDocs], declared \in BOOLEAN :
       refs = [NoRefs EXCEPT !.docs = docs, !.declared = declared]
  /\ report = NoReport
  /\ req = NoRequest

NextWatched == Propagate \/ (\E d \in Deps : DeleteDependent(d)) \/ Listener \/ Log

SpecWatched == InitWatched /\ [][NextWatched]_vars

\* C23: after a propagation the ledger holds no entry for any referencing
\* document, stamped or not.
C23_StampingLeavesNoEntry ==
  refs.pc = "done" => \A d \in Deps : EntriesOf(DepKey(d)) = {}

\* ------------------------------------------------ logChange after a cleanup
\* Version v is above every version the ledger L holds for document d.
AboveRemaining(L, d, v) == \A e \in L : e.documentId = d => e.version < v

\* Version v is one above the highest version L holds for d (1 if none).
NextAfterRemaining(L, d, v) ==
  /\ AboveRemaining(L, d, v)
  /\ v = 1 \/ \E e \in L : e.documentId = d /\ e.version = v - 1

\* Task t of the step read its latest version after the last deleting
\* cleanup: either the step is that read, or the ledger still holds for the
\* task's document exactly what the read saw.
ReadAfterCleanup(t) ==
  /\ report.last = "delete"
  /\ report.removal.deleted > 0
  /\ task[t].pc = "logSave"
  /\ NextAfterRemaining(ledger, task[t].doc, task[t].latest + 1)

\* C24: once cleanupOldAuditLogs has deleted entries, getLatestVersion
\* answers the highest version among the entries that remain for the
\* document (0 if none remain), and the logChange call that read it stores
\* that number plus one, a version no remaining entry of the document has.
C24_VersionFromRemainingEntries ==
  [][\A t \in Tasks :
       /\ (report.last = "delete" /\ task[t].pc = "logRead" /\ task'[t].pc = "logSave") =>
            NextAfterRemaining(ledger, task[t].doc, task'[t].latest + 1)
       /\ (ReadAfterCleanup(t) /\ ledger' # ledger /\ task'[t] # task[t]) =>
            \E e \in ledger' \ ledger :
              /\ ledger' = ledger \cup {e}
              /\ e.documentId = task[t].doc
              /\ NextAfterRemaining(ledger, e.documentId, e.version)
              /\ \A f \in ledger : f.documentId = e.documentId => f.version # e.version
    ]_vars

\* Only one document was ever created, a cleanup deleted entries (hence its
\* entries), and an entry written afterwards carries the highest remaining
\* version plus one.
C24_Witness ==
  /\ report.last = "delete"
  /\ report.removal.deleted > 0
  /\ nextDoc = 2
  /\ \E e \in ledger :
       /\ e._id >= report.removal.saw
       /\ NextAfterRemaining(ledger \ {e}, e.documentId, e.version)

\* ------------------------------------------ one write, two logging paths
\* The entries the ledger holds for the operation the request of process p
\* performed on its document.
EntriesOfRequest(p) ==
  {e \in EntriesOf(task[p].doc) : e.operation = task[p].op /\ ~e.isRevert}

\* The create or update of process p returned without a logging failure, and
\* the listener has handled its event without one; nothing wrote directly.
LoggedByBothPaths(p) ==
  /\ task[p].pc = "done"
  /\ task[p].op \in {"create", "update"}
  /\ task[p].result = "ok"
  /\ ~task[p].logFailed
  /\ ListenerQuiet
  /\ direct = {}

\* C25: with the listener active, a create or update through
\* DynamicCrudService is logged twice, once with source 'api' and once with
\* source 'changeStream', and the two entries carry different version
\* numbers.
C25_BothPathsOwnVersions ==
  \A p \in StreamProcs :
    LoggedByBothPaths(p) =>
      \E a, c \in EntriesOfRequest(p) :
        /\ EntriesOfRequest(p) = {a, c}
        /\ a.source = "api"
        /\ c.source = "changeStream"
        /\ a.version # c.version

\* The part of C25 the code keeps: two entries, one per path.
C25_TwoEntriesOnePerPath ==
  \A p \in StreamProcs :
    LoggedByBothPaths(p) =>
      \E a, c \in EntriesOfRequest(p) :
        /\ EntriesOfRequest(p) = {a, c}
        /\ a.source = "api"
        /\ c.source = "changeStream"

\* ------------------------------------------- one subscription per schema
\* The open per-schema streams of schema s.
OpenStreamsOf(s) == {id \in OpenStreams(svc) : svc.made[id].schema = s}

\* C26: at every moment a schema has at most one open change subscription,
\* and an open subscription is the one the stream map holds under its
\* schema's name.
C26_OneRegisteredStreamPerSchema ==
  \A s \in Schemas :
    /\ Cardinality(OpenStreamsOf(s)) <= 1
    /\ \A id \in OpenStreamsOf(s) : svc.map[s] = id

\* ------------------------------------------------ nothing after shutdown
\* C27: once shutdown has completed, and until initialize runs again, no
\* step creates a subscription or puts an entry into the stream map.
C27_NothingOpensAfterShutdown ==
  [][(svc.shutdowns > 0 /\ ~svc.isInitialized /\ ~svc'.isInitialized) =>
       /\ Len(svc'.made) = Len(svc.made)
       /\ \A s \in Schemas : svc'.map[s] = 0
    ]_vars

\* ------------------------------------------------------ the ledger chain
\* Entries e and f of one document carry consecutive versions.
Consecutive(e, f) == e.documentId = f.documentId /\ f.version = e.version + 1

\* C28: once the requests have returned, every entry's previousState is the
\* currentState of the entry one version below it, also when update and
\* revert calls on the document ran concurrently.
C28_LedgerChain ==
  (\A p \in Procs : Free(p)) =>
    \A e, f \in ledger : Consecutive(e, f) => f.previousState = e.currentState

\* ------------------------------------------- the ledger's head and the store
\* Every request made so far was a CRUD-service operation that succeeded
\* and whose ledger write succeeded, and all have returned.
AllLogged ==
  /\ \A p \in Procs : Free(p)
  /\ Cardinality(ledger) = ops
  /\ \A e \in ledger : ~e.isRevert

\* Entry e carries the highest version of its document.
HighestVersion(e) == \A f \in EntriesOf(e.documentId) : f.version <= e.version

\* C29: once the operations on a document have finished and every ledger
\* write succeeded, the entry with the highest version describes the live
\* store: its currentState is the live document, and it is a delete entry
\* exactly when the document no longer exists.
C29_HeadDescribesStore ==
  AllLogged =>
    \A e \in ledger :
      HighestVersion(e) =>
        /\ e.currentState = store[e.documentId]
        /\ (e.operation = "delete") = (store[e.documentId] = Null)

\* ------------------------------------------------ concurrent propagations
\* A second propagateChanges call, for a record document d refers to through
\* field f, reaches updateDependentRecord: Model.findById reads the document
\* and the new version is (currentRecord[<field>_version] || 0) + 1.
ConcurrentDependentFind(d, f) ==
  /\ refs.other.pc = "idle"
  /\ refs.loaded
  /\ refs.docs[d] # Null
  /\ \E k \in 1..Len(Relationships), r \in Records :
       Relationships[k].field = f /\ Matches(refs.docs[d], Relationships[k], r)
  /\ refs' = [refs EXCEPT
                !.other = [pc |-> "write", recordId |-> d, field |-> f,
                           version |-> (IF refs.declared
                                        THEN refs.docs[d].stamps[f].version ELSE 0) + 1]]
  /\ UNCHANGED <<dataVars, svc, report, req>>

\* The second call's Model.findByIdAndUpdate(recordId, {$set: updateData}).
ConcurrentDependentWrite ==
  /\ refs.other.pc = "write"
  /\ LET d == refs.other.recordId
         doc == refs.docs[d] IN
       refs' = [refs EXCEPT
                  !.docs[d] = IF doc = Null THEN Null
                              ELSE Stamped(doc, refs.other.field, refs.other.version,
                                           now, refs.declared),
                  !.other.pc = IF doc = Null THEN "missed" ELSE "done"]
  /\ UNCHANGED <<dataVars, svc, report, req>>

ConcurrentPropagation ==
  (\E d \in Deps, f \in RefFields : ConcurrentDependentFind(d, f)) \/ ConcurrentDependentWrite

NextConcurrent ==
  Propagate \/ ConcurrentPropagation \/ (\E d \in Deps : DeleteDependent(d))

\* Two propagateChanges calls side by side.
SpecConcurrent == InitPropagate /\ [][NextConcurrent]_vars

\* The number of updateDependentRecord calls that found document d and
\* wrote its stamp for field f.
StampsWritten(d, f) ==
  Cardinality({k \in 1..Len(refs.results) :
                 /\ refs.results[k].recordId = d
                 /\ refs.results[k].field = f
                 /\ refs.applied[k]})
    + (IF refs.other.pc = "done" /\ refs.other.recordId = d /\ refs.other.field = f
       THEN 1 ELSE 0)

\* No updateDependentRecord call is between its read and its write.
StampsSettled == refs.pc \in {"idle", "loop", "done"} /\ refs.other.pc # "write"

\* C30: a dependent's <field>_version is the number of propagations that
\* stamped the field on it, whether they ran one after the other or
\* concurrently.
C30_VersionCountsStamps ==
  StampsSettled =>
    \A d \in Deps : \A f \in RefFields :
      refs.docs[d] # Null => refs.docs[d].stamps[f].version = StampsWritten(d, f)

\* C30 for a referencing schema that declares the stamp fields: what is left
\* of it when the stamps are written at all.
C30_DeclaredVersionCountsStamps ==
  (StampsSettled /\ refs.declared) =>
    \A d \in Deps : \A f \in RefFields :
      refs.docs[d] # Null => refs.docs[d].stamps[f].version = StampsWritten(d, f)

====
